---- MODULE Spec2Model ----
(***************************************************************************)
(* Repository Playground: the metadata state machine and signing-event     *)
(* engine.  The signer tool (SignerRepository) edits and signs the offline *)
(* roles of a signing event, the CI repository (PlaygroundRepository)      *)
(* computes signing status and writes the online roles.                    *)
(*                                                                         *)
(* A metadata file is a record [signed, signatures].  A signature made by  *)
(* a key commits to the payload it was made over: it is the record         *)
(* [keyid, sig] where sig is the signed payload; the empty placeholder     *)
(* Signature(keyid, "") has sig = NoSig and verifies under no key.         *)
(* Time is counted in whole days.                                          *)
(***************************************************************************)
EXTENDS Integers, Sequences, FiniteSets, TLC

\* ---- bounds of the model ------------------------------------------------
MaxNow == 2
MaxVersion == 2
MaxThreshold == 2

\* ---- names ----------------------------------------------------------------
Users == {"@a", "@b"}
Delegated == {"d1"}
OnlineRoles == {"timestamp", "snapshot"}
TopLevel == {"root", "targets", "snapshot", "timestamp"}
OfflineRoles == {"root", "targets"} \cup Delegated
Roles == TopLevel \cup Delegated

\* The hardware key a user holds; set_role_config binds x-playground-keyowner.
KeyIdOf(u) == IF u = "@a" THEN "ka" ELSE IF u = "@b" THEN "kb" ELSE "kc"
UserKey(u) == [keyid |-> KeyIdOf(u), owner |-> u, uri |-> ""]
NoKey == [keyid |-> "", owner |-> "", uri |-> ""]
\* Online keys carry x-playground-online-uri and no key owner.
OnlineKey(id) == [keyid |-> id, owner |-> "", uri |-> "envvar:"]
OnlineKeyLists == {<<"ko1">>, <<"ko1", "ko2">>}

\* ---- python dict and list helpers ----------------------------------------
EmptyDict == [x \in {} |-> x]
Put(d, k, v) == [x \in (DOMAIN d) \cup {k} |-> IF x = k THEN v ELSE d[x]]
Del(d, k) == [x \in (DOMAIN d) \ {k} |-> d[x]]
Range(s) == {s[i] : i \in DOMAIN s}
RECURSIVE ListRemove(_, _)
\* list.remove(x): drops the first occurrence
ListRemove(s, x) ==
  IF s = <<>> THEN <<>>
  ELSE IF Head(s) = x THEN Tail(s)
  ELSE <<Head(s)>> \o ListRemove(Tail(s), x)
ListAdd(s, x) == IF x \in Range(s) THEN s ELSE Append(s, x)

\* ---- metadata ---------------------------------------------------------------
NoFile == [signed |-> [type |-> "none"], signatures |-> EmptyDict]
NoSig == [type |-> "nosig"]
EmptySignature(keyid) == [keyid |-> keyid, sig |-> NoSig]
\* md.sign(signer, append=True): the signer's key over the canonical payload
MakeSignature(keyid, signed) == [keyid |-> keyid, sig |-> signed]
\* key.verify_signature(signature, payload)
VerifySignature(key, signature, signed) ==
  /\ signature.keyid = key.keyid
  /\ signature.sig # NoSig
  /\ signature.sig = signed

NoDelegations == [keys |-> EmptyDict, roles |-> EmptyDict, present |-> FALSE]
\* Metadata(Root()): version 1, four top-level roles without keys, threshold 1
NewRoot(t) ==
  [signed |-> [type |-> "root", version |-> 1, expires |-> t,
               expiry_period |-> 0, signing_period |-> 0,
               keys |-> EmptyDict,
               roles |-> [r \in TopLevel |->
                            [keyids |-> <<>>, threshold |-> 1, fields |-> EmptyDict]]],
   signatures |-> EmptyDict]
\* Metadata(Targets())
NewTargets(t) ==
  [signed |-> [type |-> "targets", version |-> 1, expires |-> t,
               expiry_period |-> 0, signing_period |-> 0,
               targets |-> EmptyDict,
               delegations |-> NoDelegations],
   signatures |-> EmptyDict]
\* Metadata(Snapshot()) with meta cleared and version 0
NewSnapshot(t) ==
  [signed |-> [type |-> "snapshot", version |-> 0, expires |-> t, meta |-> EmptyDict],
   signatures |-> EmptyDict]
\* Metadata(Timestamp()) with snapshot_meta.version 0 and version 0
NewTimestamp(t) ==
  [signed |-> [type |-> "timestamp", version |-> 0, expires |-> t, snapshot_meta |-> 0],
   signatures |-> EmptyDict]

\* ---- delegator accessors (Root / Targets of the metadata API) ---------------
DelegatorOf(role) == IF role \in TopLevel THEN "root" ELSE "targets"
\* the dict of delegated roles of a signed payload
DelegatedRolesOf(signed) ==
  IF signed.type = "root" THEN signed.roles
  ELSE IF signed.type = "targets" THEN signed.delegations.roles
  ELSE EmptyDict
KeysOf(signed) ==
  IF signed.type = "root" THEN signed.keys
  ELSE IF signed.type = "targets" THEN signed.delegations.keys
  ELSE EmptyDict
\* get_delegated_role raises ValueError when the role is not delegated
HasDelegatedRole(signed, role) == role \in DOMAIN DelegatedRolesOf(signed)
GetDelegatedRole(signed, role) == DelegatedRolesOf(signed)[role]
SetDelegated(signed, roles, keys) ==
  IF signed.type = "root" THEN [signed EXCEPT !.roles = roles, !.keys = keys]
  ELSE [signed EXCEPT !.delegations =
          [keys |-> keys, roles |-> roles, present |-> TRUE]]
\* add_key(key, role)
AddKey(signed, key, role) ==
  LET r == GetDelegatedRole(signed, role)
      r2 == [r EXCEPT !.keyids = ListAdd(r.keyids, key.keyid)]
  IN SetDelegated(signed, Put(DelegatedRolesOf(signed), role, r2),
                  Put(KeysOf(signed), key.keyid, key))
\* revoke_key(keyid, role): the key itself is dropped when no role uses it
RevokeKey(signed, keyid, role) ==
  LET r == GetDelegatedRole(signed, role)
      r2 == [r EXCEPT !.keyids = ListRemove(r.keyids, keyid)]
      roles2 == Put(DelegatedRolesOf(signed), role, r2)
      used == \E n \in DOMAIN roles2 : keyid \in Range(roles2[n].keyids)
  IN SetDelegated(signed, roles2,
                  IF used THEN KeysOf(signed) ELSE Del(KeysOf(signed), keyid))

\* The keyids of role whose key the delegator knows and whose signature on md
\* verifies (the signing_keys set of verify_delegate).
VerifiedKeyids(delegator, role, md) ==
  IF ~HasDelegatedRole(delegator, role) THEN {}
  ELSE {k \in Range(GetDelegatedRole(delegator, role).keyids) :
          /\ k \in DOMAIN KeysOf(delegator)
          /\ k \in DOMAIN md.signatures
          /\ VerifySignature(KeysOf(delegator)[k], md.signatures[k], md.signed)}
\* delegator.verify_delegate(role, md) does not raise
VerifyDelegateAnyOne(delegator, role, md) ==
  /\ HasDelegatedRole(delegator, role)
  /\ Cardinality(VerifiedKeyids(delegator, role, md)) >= 1
VerifyDelegate(delegator, role, md) ==
  /\ HasDelegatedRole(delegator, role)
  /\ Cardinality(VerifiedKeyids(delegator, role, md)) >=
       GetDelegatedRole(delegator, role).threshold

\* ---- state ------------------------------------------------------------------
\* files         the metadata directory of the checked-out tree: role -> file
\* root_history  its root_history/ directory: version -> root file
\* prev          the known-good metadata directory (the merge base with main)
\* prev_history  the known-good root_history/ directory
\* state_file    .signing-event-state: [exists, invites: signer -> set of roles]
\* now           the clock (datetime.utcnow), in days
\* last          the operation that ran last, with its arguments and outcome
VARIABLES files, root_history, prev, prev_history, state_file, now, last
vars == <<files, root_history, prev, prev_history, state_file, now, last>>

NoStateFile == [exists |-> FALSE, invites |-> EmptyDict]
\* SignerRepository.__init__ / SigningEventState.__init__: read the invites
LoadInvites(sf) == IF sf.exists THEN sf.invites ELSE EmptyDict

\* ---- SignerRepository -------------------------------------------------------
\* A store is the part of the disk an operation works on, with the in-memory
\* invites of the repository object: [files, hist, inv].
SignerCanOpen(fs, role) == fs[role] # NoFile \/ role \notin OnlineRoles
SignerOpen(fs, role) ==
  IF fs[role] # NoFile THEN fs[role]
  ELSE IF role = "root" THEN NewRoot(now) ELSE NewTargets(now)

PrevVersionPlusOne(role) ==
  IF prev[role] # NoFile THEN prev[role].signed.version + 1 ELSE 1
PrevVersion(role) == PrevVersionPlusOne(role) - 1

\* _get_keys raises ValueError when the delegator does not delegate the role
SignerGetKeysOk(fs, role) ==
  HasDelegatedRole(SignerOpen(fs, DelegatorOf(role)).signed, role)
\* _get_keys: the known keys of the role, by keyid
SignerGetKeys(fs, role) ==
  LET d == SignerOpen(fs, DelegatorOf(role)).signed
      ids == Range(GetDelegatedRole(d, role).keyids) \cap DOMAIN KeysOf(d)
  IN [k \in ids |-> KeysOf(d)[k]]

\* _get_delegated_rolenames
GetDelegatedRolenames(signed) == DOMAIN DelegatedRolesOf(signed)

\* _write: the role file, and for root also root_history/<version>.root.json
SignerWrite(st, role, md) ==
  [st EXCEPT !.files[role] = md,
             !.hist = IF role = "root" THEN Put(st.hist, md.signed.version, md)
                      ELSE st.hist]

\* the signatures of close() as they would be if every known key of the role
\* signed the new payload
SignaturesAtCloseSignsAll(st, role, signed, user) ==
  [k \in DOMAIN SignerGetKeys(st.files, role) |-> MakeSignature(k, signed)]
\* the signatures of close() as they would be if a signer who had signed the
\* role before the edit stayed signed
SignaturesAtCloseKeepsSigned(st, role, signed, user) ==
  LET keys == SignerGetKeys(st.files, role)
      old == SignerOpen(st.files, role).signatures
  IN [k \in DOMAIN keys |->
        IF keys[k].owner = user \/ (k \in DOMAIN old /\ old[k].sig # NoSig)
        THEN MakeSignature(k, signed)
        ELSE EmptySignature(k)]
SignaturesAtClose(st, role, signed, user) ==
  LET open_invites == \E u \in DOMAIN st.inv :
                        st.inv[u] \cap GetDelegatedRolenames(signed) # {}
      keys == SignerGetKeys(st.files, role)
  IN [k \in DOMAIN keys |->
        IF keys[k].owner = user /\ ~open_invites
        THEN MakeSignature(k, signed)
        ELSE EmptySignature(k)]

\* close(role, md) as it would be if it counted from the version in the file
SignerCloseFromCurrent(st, role, signed, user) ==
  LET s1 == [signed EXCEPT !.version = signed.version + 1,
                           !.expires = now + signed.expiry_period]
  IN SignerWrite(st, role,
                 [signed |-> s1,
                  signatures |-> SignaturesAtClose(st, role, s1, user)])
\* close(role, md) as it would be if it signed before it set version and expiry
SignerCloseSignsFirst(st, role, signed, user) ==
  LET s1 == [signed EXCEPT !.version = PrevVersionPlusOne(role),
                           !.expires = now + signed.expiry_period]
  IN SignerWrite(st, role,
                 [signed |-> s1,
                  signatures |-> SignaturesAtClose(st, role, signed, user)])
\* close(role, md): version, expiry, signatures, write
SignerClose(st, role, signed, user) ==
  LET s1 == [signed EXCEPT !.version = PrevVersionPlusOne(role),
                           !.expires = now + signed.expiry_period]
  IN SignerWrite(st, role,
                 [signed |-> s1,
                  signatures |-> SignaturesAtClose(st, role, s1, user)])

\* an edit scope as it would be if AbortEdit did not skip close()
EditClosesOnAbort(st, role, cb, user) ==
  SignerClose(st, role, cb.signed, user)
\* Repository.edit(role): cb is the outcome of the callback on the opened
\* payload, [abort, signed]; AbortEdit leaves the scope without close().
Edit(st, role, cb, user) ==
  IF cb.abort THEN st ELSE SignerClose(st, role, cb.signed, user)

\* lines 424-431 as they would be if every invitation were dropped
RemoveInvitesOfAllRoles(inv, role) == EmptyDict
\* lines 424-431 as they would be if an identity left without a role stayed
\* in the invites
RemoveInvitesKeepsEmpty(inv, role) == [u \in DOMAIN inv |-> inv[u] \ {role}]
\* set_role_config, lines 424-431: the role leaves every invitation list
RemoveInvites(inv, role) ==
  LET keep == {u \in DOMAIN inv : inv[u] \ {role} # {}}
  IN [u \in keep |-> inv[u] \ {role}]
\* lines 433-446: every configured signer without a key is invited
AddInvites(inv, fs, role, signers) ==
  LET owners == {SignerGetKeys(fs, role)[k].owner : k \in DOMAIN SignerGetKeys(fs, role)}
      invited == signers \ owners
  IN IF signers = {} THEN inv
     ELSE [u \in (DOMAIN inv) \cup invited |->
             IF u \in invited
             THEN (IF u \in DOMAIN inv THEN inv[u] ELSE {}) \cup {role}
             ELSE inv[u]]

RECURSIVE RevokeLoop(_, _, _, _, _)
\* lines 466-474: "for keyid in role.keyids", a python list iteration by index
\* over the list revoke_key shortens
RevokeLoop(d, role, i, signers, changed) ==
  LET ids == GetDelegatedRole(d, role).keyids
  IN IF i > Len(ids) THEN [d |-> d, changed |-> changed, err |-> FALSE]
     ELSE IF ids[i] \notin DOMAIN KeysOf(d)
     THEN [d |-> d, changed |-> changed, err |-> TRUE]
     ELSE IF KeysOf(d)[ids[i]].owner \in signers
     THEN RevokeLoop(d, role, i + 1, signers \ {KeysOf(d)[ids[i]].owner}, changed)
     ELSE RevokeLoop(RevokeKey(d, ids[i], role), role, i + 1, signers, TRUE)

\* lines 455-464 as they would be if the new delegation covered every path
EnsureDelegationAllPaths(d, role) ==
  IF HasDelegatedRole(d, role) THEN d
  ELSE SetDelegated(d,
         Put(DelegatedRolesOf(d), role,
             [keyids |-> <<>>, threshold |-> 1, fields |-> EmptyDict,
              paths |-> <<"*">>]),
         KeysOf(d))
\* lines 455-464: the delegation is created when it does not exist yet
EnsureDelegation(d, role) ==
  IF HasDelegatedRole(d, role) THEN d
  ELSE SetDelegated(d,
         Put(DelegatedRolesOf(d), role,
             [keyids |-> <<>>, threshold |-> 1, fields |-> EmptyDict,
              paths |-> <<role \o "/*">>]),
         KeysOf(d))

\* the delegator callback as it would be if accepting left the invitation
\* in the event state
DelegatorCallbackKeepsInvite(d0, inv, role, config, signing_key, user) ==
  LET d1 == EnsureDelegation(d0, role)
      loop == RevokeLoop(d1, role, 1, config.signers, ~HasDelegatedRole(d0, role))
      invited == user \in DOMAIN inv /\ role \in inv[user]
      accept == invited /\ signing_key # NoKey
      d2 == IF accept
            THEN AddKey(loop.d, [signing_key EXCEPT !.owner = user], role)
            ELSE loop.d
      r == GetDelegatedRole(d2, role)
      changed == loop.changed \/ accept \/ r.threshold # config.threshold
      d3 == SetDelegated(d2,
                         Put(DelegatedRolesOf(d2), role,
                             [r EXCEPT !.threshold = config.threshold]),
                         KeysOf(d2))
  IN [abort |-> ~changed, signed |-> d3, inv |-> inv, err |-> loop.err]
\* the delegator callback as it would be if a new threshold alone did not
\* count as a change
DelegatorCallbackIgnoresThreshold(d0, inv, role, config, signing_key, user) ==
  LET d1 == EnsureDelegation(d0, role)
      loop == RevokeLoop(d1, role, 1, config.signers, ~HasDelegatedRole(d0, role))
      invited == user \in DOMAIN inv /\ role \in inv[user]
      accept == invited /\ signing_key # NoKey
      d2 == IF accept
            THEN AddKey(loop.d, [signing_key EXCEPT !.owner = user], role)
            ELSE loop.d
      inv2 == IF accept THEN RemoveInvites([u \in {user} |-> inv[user]], role)
                             @@ [u \in (DOMAIN inv) \ {user} |-> inv[u]]
              ELSE inv
      r == GetDelegatedRole(d2, role)
      changed == loop.changed \/ accept
      d3 == SetDelegated(d2,
                         Put(DelegatedRolesOf(d2), role,
                             [r EXCEPT !.threshold = config.threshold]),
                         KeysOf(d2))
  IN [abort |-> ~changed, signed |-> d3, inv |-> inv2, err |-> loop.err]
\* lines 453-492: the callback of the delegator's edit scope; inv is the
\* in-memory invites it updates.  Result: [abort, signed, inv, err]
DelegatorCallback(d0, inv, role, config, signing_key, user) ==
  LET d1 == EnsureDelegation(d0, role)
      loop == RevokeLoop(d1, role, 1, config.signers, ~HasDelegatedRole(d0, role))
      invited == user \in DOMAIN inv /\ role \in inv[user]
      accept == invited /\ signing_key # NoKey
      d2 == IF accept
            THEN AddKey(loop.d, [signing_key EXCEPT !.owner = user], role)
            ELSE loop.d
      inv2 == IF accept THEN RemoveInvites([u \in {user} |-> inv[user]], role)
                             @@ [u \in (DOMAIN inv) \ {user} |-> inv[u]]
              ELSE inv
      r == GetDelegatedRole(d2, role)
      changed == loop.changed \/ accept \/ r.threshold # config.threshold
      d3 == SetDelegated(d2,
                         Put(DelegatedRolesOf(d2), role,
                             [r EXCEPT !.threshold = config.threshold]),
                         KeysOf(d2))
  IN [abort |-> ~changed, signed |-> d3, inv |-> inv2, err |-> loop.err]

\* lines 495-502: the callback of the role's own edit scope
RoleCallback(signed, config) ==
  [abort |-> /\ signed.expiry_period = config.expiry_period
             /\ signed.signing_period = config.signing_period,
   signed |-> [signed EXCEPT !.expiry_period = config.expiry_period,
                             !.signing_period = config.signing_period]]

\* lines 504-510: .signing-event-state is written, or removed when empty
SaveStateFile(inv) ==
  IF DOMAIN inv # {} THEN [exists |-> TRUE, invites |-> inv] ELSE NoStateFile

\* set_role_config raises before anything is written
SetRoleConfigRaises(fs, role, config) ==
  \/ role \in OnlineRoles
  \/ config.signers # {} /\ ~SignerGetKeysOk(fs, role)

\* the store after the delegator's edit scope (lines 448-492)
AfterDelegatorEdit(st, role, config, signing_key, user) ==
  LET inv1 == AddInvites(RemoveInvites(st.inv, role), st.files, role, config.signers)
      cb == DelegatorCallback(SignerOpen(st.files, DelegatorOf(role)).signed,
                              inv1, role, config, signing_key, user)
  IN Edit([st EXCEPT !.inv = cb.inv], DelegatorOf(role), cb, user)
DelegatorEditAborts(st, role, config, signing_key, user) ==
  DelegatorCallback(SignerOpen(st.files, DelegatorOf(role)).signed,
                    AddInvites(RemoveInvites(st.inv, role), st.files, role, config.signers),
                    role, config, signing_key, user).abort

\* the store after the role's own edit scope (lines 494-502)
AfterRoleEdit(st, role, config, user) ==
  Edit(st, role, RoleCallback(SignerOpen(st.files, role).signed, config), user)
RoleEditAborts(st, role, config) ==
  RoleCallback(SignerOpen(st.files, role).signed, config).abort

\* set_role_config(rolename, config, signing_key): the store when it returns
SetRoleConfigOp(st, role, config, signing_key, user) ==
  AfterRoleEdit(AfterDelegatorEdit(st, role, config, signing_key, user), role, config, user)

\* sign(rolename) as it would be if it kept the signer's own signature only
\* sign(rolename) as it would be if the signer's entry stayed a placeholder
SignerSignPlaceholder(st, role, user) ==
  LET md == SignerOpen(st.files, role)
      keys == SignerGetKeys(st.files, role)
      mine == {k \in DOMAIN keys : keys[k].owner = user}
  IN IF mine = {} THEN st
     ELSE LET k == CHOOSE x \in mine : TRUE
          IN SignerWrite(st, role,
               [md EXCEPT !.signatures = Put(md.signatures, k, EmptySignature(k))])
SignerSignAlone(st, role, user) ==
  LET md == SignerOpen(st.files, role)
      keys == SignerGetKeys(st.files, role)
      mine == {k \in DOMAIN keys : keys[k].owner = user}
  IN IF mine = {} THEN st
     ELSE LET k == CHOOSE x \in mine : TRUE
          IN SignerWrite(st, role,
               [md EXCEPT !.signatures = [x \in {k} |-> MakeSignature(k, md.signed)]])
\* sign(rolename): the first key of the user signs the payload as it is
SignerSign(st, role, user) ==
  LET md == SignerOpen(st.files, role)
      keys == SignerGetKeys(st.files, role)
      mine == {k \in DOMAIN keys : keys[k].owner = user}
  IN IF mine = {} THEN st
     ELSE LET k == CHOOSE x \in mine : TRUE
          IN SignerWrite(st, role,
               [md EXCEPT !.signatures = Put(md.signatures, k, MakeSignature(k, md.signed))])

\* set_online_config: every key signs both timestamp and snapshot
RECURSIVE RevokeAll(_, _, _)
RevokeAll(d, ids, role) ==
  IF ids = <<>> THEN d ELSE RevokeAll(RevokeKey(d, Head(ids), role), Tail(ids), role)
RECURSIVE AddOnlineKeys(_, _)
AddOnlineKeys(d, ids) ==
  IF ids = <<>> THEN d
  ELSE AddOnlineKeys(AddKey(AddKey(d, OnlineKey(Head(ids)), "timestamp"),
                            OnlineKey(Head(ids)), "snapshot"),
                     Tail(ids))
OnlineCallback(root, config) ==
  LET d1 == RevokeAll(root, root.roles["timestamp"].keyids, "timestamp")
      d2 == RevokeAll(d1, d1.roles["snapshot"].keyids, "snapshot")
      d3 == AddOnlineKeys(d2, config.keys)
  IN [abort |-> FALSE,
      signed |-> [d3 EXCEPT
         !.roles["timestamp"].fields = Put(@, "expiry", config.timestamp_expiry),
         !.roles["snapshot"].fields = Put(@, "expiry", config.snapshot_expiry)]]

\* ---- PlaygroundRepository ---------------------------------------------------
\* open(role): only the online roles are created when absent
RepoCanOpen(fs, role) == fs[role] # NoFile \/ role \in OnlineRoles
\* open(role) as it would be without "md.signed.version = 0"
RepoOpenFromOne(fs, role) ==
  IF fs[role] # NoFile THEN fs[role]
  ELSE IF role = "timestamp"
  THEN [NewTimestamp(now) EXCEPT !.signed.version = 1]
  ELSE [NewSnapshot(now) EXCEPT !.signed.version = 1]
RepoOpen(fs, role) ==
  IF fs[role] # NoFile THEN fs[role]
  ELSE IF role = "timestamp" THEN NewTimestamp(now) ELSE NewSnapshot(now)

RepoGetKeysOk(fs, role) ==
  /\ fs[DelegatorOf(role)] # NoFile
  /\ HasDelegatedRole(fs[DelegatorOf(role)].signed, role)
RepoGetKeys(fs, role) ==
  LET d == fs[DelegatorOf(role)].signed
      ids == Range(GetDelegatedRole(d, role).keyids) \cap DOMAIN KeysOf(d)
  IN [k \in ids |-> KeysOf(d)[k]]

\* signing_expiry_period raises when the file or the expiry field is missing
PeriodsOk(fs, role) ==
  IF role \in OnlineRoles
  THEN fs["root"] # NoFile /\ "expiry" \in DOMAIN fs["root"].signed.roles[role].fields
  ELSE fs[role] # NoFile
ExpiryPeriod(fs, role) ==
  IF role \in OnlineRoles THEN fs["root"].signed.roles[role].fields["expiry"]
  ELSE fs[role].signed.expiry_period
\* the signing period as it would be if the configured value were ignored
SigningPeriodAlwaysDefault(fs, role) == ExpiryPeriod(fs, role) \div 2
SigningPeriod(fs, role) ==
  IF role \in OnlineRoles
  THEN (IF "signing" \in DOMAIN fs["root"].signed.roles[role].fields
        THEN fs["root"].signed.roles[role].fields["signing"]
        ELSE ExpiryPeriod(fs, role) \div 2)
  ELSE fs[role].signed.signing_period

\* The signers of a CI run, env = [raises, good]: Signer.sign raises, or it
\* returns a signature that verifies under the key only when the run's
\* credential is the key's (the keyids in good).
BadSig == [type |-> "badsig"]
SignerEnvs ==
  {[raises |-> FALSE, good |-> {"ko1", "ko2"}], [raises |-> FALSE, good |-> {"ko1"}],
   [raises |-> FALSE, good |-> {}], [raises |-> TRUE, good |-> {}]}
NoSigner == [raises |-> TRUE, good |-> {}]
\* the signatures close() collects: online keys sign, offline keys get an
\* empty placeholder
RepoSignatures(fs, role, signed, env) ==
  [k \in DOMAIN RepoGetKeys(fs, role) |->
     IF role \in OnlineRoles
     THEN (IF k \in env.good THEN MakeSignature(k, signed) ELSE [keyid |-> k, sig |-> BadSig])
     ELSE EmptySignature(k)]
RepoClosedMd(fs, role, signed, env) ==
  LET s1 == [signed EXCEPT !.version = signed.version + 1,
                           !.expires = now + ExpiryPeriod(fs, role)]
  IN [signed |-> s1, signatures |-> RepoSignatures(fs, role, s1, env)]
\* close() as it would be without the verify_delegate call before the write
RepoCloseOkUnverified(fs, role, signed, env) ==
  /\ PeriodsOk(fs, role)
  /\ RepoGetKeysOk(fs, role)
  /\ role \in OnlineRoles => (~env.raises \/ DOMAIN RepoGetKeys(fs, role) = {})
\* close() raises: a period or a delegation is missing, an online signer
\* raises, or the signed online role does not verify under root
RepoCloseOk(fs, role, signed, env) ==
  /\ PeriodsOk(fs, role)
  /\ RepoGetKeysOk(fs, role)
  /\ role \in OnlineRoles =>
       /\ ~env.raises \/ DOMAIN RepoGetKeys(fs, role) = {}
       /\ VerifyDelegate(fs["root"].signed, role, RepoClosedMd(fs, role, signed, env))
\* close(rolename, md): [ok, files]
RepoClose(fs, role, signed, env) ==
  IF RepoCloseOk(fs, role, signed, env)
  THEN [ok |-> TRUE, files |-> [fs EXCEPT ![role] = RepoClosedMd(fs, role, signed, env)]]
  ELSE [ok |-> FALSE, files |-> fs]

\* targets_infos raises when a targets file is missing
TargetsInfosOk(fs) ==
  /\ fs["targets"] # NoFile
  /\ \A r \in DOMAIN fs["targets"].signed.delegations.roles : fs[r] # NoFile
\* targets_infos as it would be if it reported the top-level targets only
TargetsInfosTopOnly(fs) ==
  [r \in {"targets"} |-> fs[r].signed.version]
TargetsInfos(fs) ==
  [r \in {"targets"} \cup DOMAIN fs["targets"].signed.delegations.roles |->
     fs[r].signed.version]
\* snapshot_info
SnapshotInfo(fs) == RepoOpen(fs, "snapshot").signed.version

\* Repository.snapshot(): the callback of its edit scope on the snapshot
\* payload: [err, abort, signed]
SnapshotCallback(fs, signed) ==
  LET infos == TargetsInfos(fs)
      newer == {f \in DOMAIN infos : f \notin DOMAIN signed.meta \/ infos[f] > signed.meta[f]}
  IN [err |-> \E f \in DOMAIN infos : f \in DOMAIN signed.meta /\ infos[f] < signed.meta[f],
      abort |-> newer = {},
      signed |-> [signed EXCEPT !.meta =
                    [f \in (DOMAIN signed.meta) \cup newer |->
                       IF f \in newer THEN infos[f] ELSE signed.meta[f]]]]
\* Repository.snapshot(): [ok, updated, files]
DoSnapshot(fs, env) ==
  IF ~TargetsInfosOk(fs) THEN [ok |-> FALSE, updated |-> FALSE, files |-> fs]
  ELSE LET cb == SnapshotCallback(fs, RepoOpen(fs, "snapshot").signed)
       IN IF cb.err THEN [ok |-> FALSE, updated |-> FALSE, files |-> fs]
          ELSE IF cb.abort THEN [ok |-> TRUE, updated |-> FALSE, files |-> fs]
          ELSE LET c == RepoClose(fs, "snapshot", cb.signed, env)
               IN [ok |-> c.ok, updated |-> c.ok, files |-> c.files]
\* Repository.timestamp(): [ok, updated, files]
DoTimestamp(fs, env) ==
  LET signed == RepoOpen(fs, "timestamp").signed
  IN IF SnapshotInfo(fs) < signed.snapshot_meta
     THEN [ok |-> FALSE, updated |-> FALSE, files |-> fs]
     ELSE IF SnapshotInfo(fs) = signed.snapshot_meta
     THEN [ok |-> TRUE, updated |-> FALSE, files |-> fs]
     ELSE LET c == RepoClose(fs, "timestamp",
                             [signed EXCEPT !.snapshot_meta = SnapshotInfo(fs)], env)
          IN [ok |-> c.ok, updated |-> c.ok, files |-> c.files]

\* the signing-period test as it would be with "<=" for "<"
BumpNeededStrict(fs, role) ==
  ~(now + SigningPeriod(fs, role) <= RepoOpen(fs, role).signed.expires)
\* bump_expiring(rolename): [ok, bumped, files]
BumpNeeded(fs, role) ==
  ~(now + SigningPeriod(fs, role) < RepoOpen(fs, role).signed.expires)
\* the signing-period test of bump_expiring on a clock of quarter days (six
\* hours): days are timedelta(days=...), four quarters each
BumpNeededAtQuarter(now_q, expires_q, signing_days) ==
  ~(now_q + 4 * signing_days < expires_q)
BumpExpiring(fs, role, env) ==
  IF ~RepoCanOpen(fs, role) \/ ~PeriodsOk(fs, role)
  THEN [ok |-> FALSE, bumped |-> FALSE, files |-> fs]
  ELSE IF ~BumpNeeded(fs, role) THEN [ok |-> TRUE, bumped |-> FALSE, files |-> fs]
  ELSE LET c == RepoClose(fs, role, RepoOpen(fs, role).signed, env)
       IN [ok |-> c.ok, bumped |-> c.ok, files |-> c.files]

\* _validate_role as it would be without the verify_delegate call
\* what bump_expiring returns: the version of the closed payload, or None
\* (the empty option) when the edit was aborted
BumpExpiringReturn(fs, role, env) ==
  IF BumpExpiring(fs, role, env).bumped
  THEN <<BumpExpiring(fs, role, env).files[role].signed.version>>
  ELSE <<>>
\* _validate_role as it would be if only a version below the known-good one
\* were rejected
ValidateRoleBelowOnly(fs, delegator, role) ==
  LET md == fs[role]
  IN IF prev[role] # NoFile /\ md.signed.version < prev[role].signed.version
     THEN [valid |-> FALSE, message |-> "version"]
     ELSE IF md.signed.expires > now + md.signed.expiry_period
     THEN [valid |-> FALSE, message |-> "expiry"]
     ELSE IF ~VerifyDelegate(delegator.signed, role, md)
     THEN [valid |-> FALSE, message |-> "none"]
     ELSE [valid |-> TRUE, message |-> "none"]
\* _validate_role as it would be without the expiry check
ValidateRoleNoExpiry(fs, delegator, role) ==
  LET md == fs[role]
  IN IF prev[role] # NoFile /\ md.signed.version <= prev[role].signed.version
     THEN [valid |-> FALSE, message |-> "version"]
     ELSE IF ~VerifyDelegate(delegator.signed, role, md)
     THEN [valid |-> FALSE, message |-> "none"]
     ELSE [valid |-> TRUE, message |-> "none"]
ValidateRoleUnverified(fs, delegator, role) ==
  LET md == fs[role]
  IN IF prev[role] # NoFile /\ md.signed.version <= prev[role].signed.version
     THEN [valid |-> FALSE, message |-> "version"]
     ELSE IF md.signed.expires > now + md.signed.expiry_period
     THEN [valid |-> FALSE, message |-> "expiry"]
     ELSE [valid |-> TRUE, message |-> "none"]
\* _validate_role as it would be without the comparison with the known-good
\* version
ValidateRoleAnyVersion(fs, delegator, role) ==
  LET md == fs[role]
  IN IF md.signed.expires > now + md.signed.expiry_period
     THEN [valid |-> FALSE, message |-> "expiry"]
     ELSE IF ~VerifyDelegate(delegator.signed, role, md)
     THEN [valid |-> FALSE, message |-> "none"]
     ELSE [valid |-> TRUE, message |-> "none"]
\* _validate_role as it would be if a failed verify_delegate were reported
\* with a message
ValidateRoleWithMessage(fs, delegator, role) ==
  LET md == fs[role]
  IN IF prev[role] # NoFile /\ md.signed.version <= prev[role].signed.version
     THEN [valid |-> FALSE, message |-> "version"]
     ELSE IF md.signed.expires > now + md.signed.expiry_period
     THEN [valid |-> FALSE, message |-> "expiry"]
     ELSE IF ~VerifyDelegate(delegator.signed, role, md)
     THEN [valid |-> FALSE, message |-> "threshold"]
     ELSE [valid |-> TRUE, message |-> "none"]
\* _validate_role(delegator, rolename): [valid, message]
ValidateRole(fs, delegator, role) ==
  LET md == fs[role]
  IN IF prev[role] # NoFile /\ md.signed.version <= prev[role].signed.version
     THEN [valid |-> FALSE, message |-> "version"]
     ELSE IF md.signed.expires > now + md.signed.expiry_period
     THEN [valid |-> FALSE, message |-> "expiry"]
     ELSE IF ~VerifyDelegate(delegator.signed, role, md)
     THEN [valid |-> FALSE, message |-> "none"]
     ELSE [valid |-> TRUE, message |-> "none"]

\* SigningEventState.invited_signers_for_role
InvitedSignersForRole(sf, role) ==
  {u \in DOMAIN LoadInvites(sf) : role \in LoadInvites(sf)[u]}
\* the delegation names as they would be if root stood for itself only
DelegationNamesRootOnly(fs, role) ==
  IF role = "root" THEN {"root"}
  ELSE IF role = "targets" THEN DOMAIN fs[role].signed.delegations.roles
  ELSE {}
\* the delegations whose invites _get_signing_status reports for a role
DelegationNames(fs, role) ==
  IF role = "root" THEN {"root", "targets"}
  ELSE IF role = "targets" THEN DOMAIN fs[role].signed.delegations.roles
  ELSE {}
\* _get_signing_status(delegator, rolename)
GetSigningStatus(fs, sf, delegator, role) ==
  LET md == fs[role]
      keys == RepoGetKeys(fs, role)
      good == {k \in DOMAIN keys :
                 /\ k \in DOMAIN md.signatures
                 /\ VerifySignature(keys[k], md.signatures[k], md.signed)}
      v == ValidateRole(fs, delegator, role)
  IN [invites |-> UNION {InvitedSignersForRole(sf, d) : d \in DelegationNames(fs, role)},
      signed |-> {keys[k].owner : k \in good},
      missing |-> {keys[k].owner : k \in (DOMAIN keys) \ good},
      threshold |-> GetDelegatedRole(delegator.signed, role).threshold,
      valid |-> v.valid,
      message |-> v.message]
\* status(rolename) raises for online roles, a missing file or delegation
StatusOk(fs, role) ==
  /\ role \notin OnlineRoles
  /\ fs[role] # NoFile
  /\ RepoGetKeysOk(fs, role)
\* status(rolename)[0]: the status under the current delegator
Status(fs, sf, role) == GetSigningStatus(fs, sf, fs[DelegatorOf(role)], role)
\* the text of SigningStatus.message, as the f-strings of _validate_role
\* build it
StatusMessage(fs, sf, role) ==
  IF Status(fs, sf, role).message = "version"
  THEN "Version " \o ToString(fs[role].signed.version) \o " is not valid for " \o role
  ELSE IF Status(fs, sf, role).message = "expiry"
  THEN "Expiry date is further than expected "
         \o ToString(fs[role].signed.expiry_period) \o " days ahead"
  ELSE "None"
\* status("root")[1]: the status under the known-good root, when there is one
HasPrevStatus(role) == role = "root" /\ prev["root"] # NoFile
PrevStatus(fs, sf, role) == GetSigningStatus(fs, sf, prev["root"], role)

\* status.py: the roles of the signing event that differ from the known good
ChangedRoles(fs) == {r \in Roles : fs[r] # NoFile /\ fs[r] # prev[r]}
\* _role_status as it would be if the status under the known-good root were
\* not required
RoleStatusOkCurrentOnly(fs, sf, role) ==
  /\ StatusOk(fs, role)
  /\ Status(fs, sf, role).valid
  /\ Status(fs, sf, role).invites = {}
\* status.py, _role_status: the role is valid and has no open invites
RoleStatusOk(fs, sf, role) ==
  /\ StatusOk(fs, role)
  /\ Status(fs, sf, role).valid
  /\ HasPrevStatus(role) => PrevStatus(fs, sf, role).valid
  /\ Status(fs, sf, role).invites = {}
\* the status command succeeds for the signing event
EventAccepted ==
  /\ ChangedRoles(files) # {}
  /\ \A r \in ChangedRoles(files) : RoleStatusOk(files, state_file, r)
  /\ DOMAIN LoadInvites(state_file) = {}

\* the checked-out tree is the known-good tree (no signing event is open)
OnMain ==
  /\ files = prev
  /\ root_history = prev_history
  /\ ~state_file.exists

\* the model explores versions up to MaxVersion
VersionsBounded(fs) ==
  \A r \in Roles : fs[r] # NoFile => fs[r].signed.version <= MaxVersion

Store == [files |-> files, hist |-> root_history, inv |-> LoadInvites(state_file)]

\* (expiry period, signing period) pairs a configuration may carry
PeriodChoices == {<<2, 1>>, <<1, 0>>}
OfflineConfigs ==
  {[signers |-> s, threshold |-> t, expiry_period |-> p[1], signing_period |-> p[2]] :
     s \in SUBSET Users, t \in 1..MaxThreshold, p \in PeriodChoices}

Init ==
  /\ files = [r \in Roles |-> NoFile]
  /\ root_history = EmptyDict
  /\ prev = [r \in Roles |-> NoFile]
  /\ prev_history = EmptyDict
  /\ state_file = NoStateFile
  /\ now = 0
  /\ last = [op |-> "init", role |-> "", user |-> "", ok |-> TRUE]

Tick ==
  /\ now < MaxNow
  /\ now' = now + 1
  /\ last' = [op |-> "tick", role |-> "", user |-> "", ok |-> TRUE]
  /\ UNCHANGED <<files, root_history, prev, prev_history, state_file>>

\* delegate.py: the signing key is asked for when the user is a signer
KeyFor(user, signers) == IF user \in signers THEN UserKey(user) ELSE NoKey

\* delegate.py, _init_repository: root, targets and the online roles of a
\* repository that does not exist yet
InitRepository(user, root_config, targets_config, online_config) ==
  LET key == KeyFor(user, root_config.signers \cup targets_config.signers)
      st1 == SetRoleConfigOp(Store, "root", root_config, key, user)
      st2 == SetRoleConfigOp(st1, "targets", targets_config, key, user)
      st3 == Edit(st2, "root",
                  OnlineCallback(SignerOpen(st2.files, "root").signed, online_config), user)
  IN /\ files["root"] = NoFile
     /\ files' = st3.files
     /\ root_history' = st3.hist
     /\ state_file' = SaveStateFile(st3.inv)
     /\ last' = [op |-> "init_repository", role |-> "root", user |-> user, ok |-> TRUE]
     /\ UNCHANGED <<prev, prev_history, now>>

\* SignerRepository.set_role_config(rolename, config, signing_key) by user
SetRoleConfig(user, role, config, signing_key) ==
  LET st2 == SetRoleConfigOp(Store, role, config, signing_key, user)
  IN /\ ~SetRoleConfigRaises(files, role, config)
     /\ VersionsBounded(st2.files)
     /\ files' = st2.files
     /\ root_history' = st2.hist
     /\ state_file' = SaveStateFile(st2.inv)
     /\ last' = [op |-> "set_role_config", role |-> role, user |-> user, ok |-> TRUE,
                 invited |-> user \in InvitedSignersForRole(state_file, role),
                 d_abort |-> DelegatorEditAborts(Store, role, config, signing_key, user),
                 r_abort |-> RoleEditAborts(
                               AfterDelegatorEdit(Store, role, config, signing_key, user),
                               role, config)]
     /\ UNCHANGED <<prev, prev_history, now>>

\* SignerRepository.sign(rolename) by user
Sign(user, role) ==
  /\ SignerCanOpen(files, role)
  /\ SignerGetKeysOk(files, role)
  /\ LET st1 == SignerSign(Store, role, user)
     IN /\ files' = st1.files
        /\ root_history' = st1.hist
  /\ last' = [op |-> "sign", role |-> role, user |-> user, ok |-> TRUE]
  /\ UNCHANGED <<prev, prev_history, state_file, now>>

\* SignerRepository.set_online_config(online_config) by user
SetOnlineConfig(user, config) ==
  LET st1 == Edit(Store, "root", OnlineCallback(SignerOpen(files, "root").signed, config), user)
  IN /\ VersionsBounded(st1.files)
     /\ files' = st1.files
     /\ root_history' = st1.hist
     /\ last' = [op |-> "set_online_config", role |-> "root", user |-> user, ok |-> TRUE]
     /\ UNCHANGED <<prev, prev_history, state_file, now>>

\* The signing event passes the status check and is merged: its tree becomes
\* the known-good tree of the next signing event.
Merge ==
  /\ EventAccepted
  /\ prev' = files
  /\ prev_history' = root_history
  /\ state_file' = NoStateFile
  /\ last' = [op |-> "merge", role |-> "", user |-> "", ok |-> TRUE]
  /\ UNCHANGED <<files, root_history, now>>

\* snapshot.py: snapshot(), then timestamp(), then the commit on main
SnapshotCmd(env) ==
  LET s == DoSnapshot(files, env)
      t == DoTimestamp(s.files, env)
      done == s.ok /\ s.updated /\ t.ok
  IN /\ OnMain
     /\ VersionsBounded(t.files)
     /\ files' = IF done THEN t.files ELSE files
     /\ prev' = IF done THEN t.files ELSE prev
     /\ last' = [op |-> "snapshot", role |-> "snapshot", user |-> "",
                 ok |-> s.ok /\ (s.updated => t.ok)]
     /\ UNCHANGED <<root_history, prev_history, state_file, now>>

\* bump_online as it would be if it bumped timestamp like snapshot instead of
\* calling timestamp() after a snapshot bump
BumpOnlineBumpsBoth(env) ==
  LET s == BumpExpiring(files, "snapshot", env)
      t == BumpExpiring(s.files, "timestamp", env)
      done == s.ok /\ t.ok
  IN /\ OnMain
     /\ VersionsBounded(t.files)
     /\ files' = IF done THEN t.files ELSE files
     /\ prev' = IF done THEN t.files ELSE prev
     /\ last' = [op |-> "bump_online", role |-> "snapshot", user |-> "", ok |-> done]
     /\ UNCHANGED <<root_history, prev_history, state_file, now>>
\* bump_expiring.py, bump_online
BumpOnline(env) ==
  LET s == BumpExpiring(files, "snapshot", env)
      t == IF s.bumped THEN DoTimestamp(s.files, env)
           ELSE BumpExpiring(s.files, "timestamp", env)
      done == s.ok /\ t.ok
  IN /\ OnMain
     /\ VersionsBounded(t.files)
     /\ files' = IF done THEN t.files ELSE files
     /\ prev' = IF done THEN t.files ELSE prev
     /\ last' = [op |-> "bump_online", role |-> "snapshot", user |-> "", ok |-> done]
     /\ UNCHANGED <<root_history, prev_history, state_file, now>>

\* bump_expiring.py, bump_offline: the bumped role starts a signing event
BumpOffline(role) ==
  LET b == BumpExpiring(files, role, NoSigner)
  IN /\ OnMain
     /\ VersionsBounded(b.files)
     /\ files' = b.files
     /\ last' = [op |-> "bump_offline", role |-> role, user |-> "", ok |-> b.ok]
     /\ UNCHANGED <<root_history, prev, prev_history, state_file, now>>

\* update_targets: the targets metadata of a role whose target files on disk
\* (disk: path -> hashes) differ from the metadata is edited to match them
UpdateTargetsCallback(signed, disk) ==
  [abort |-> FALSE, signed |-> [signed EXCEPT !.targets = disk]]
UpdateTargets(user, role, disk) ==
  LET st1 == Edit(Store, role,
                  UpdateTargetsCallback(SignerOpen(files, role).signed, disk), user)
  IN /\ files["targets"] # NoFile
     /\ role = "targets" \/ HasDelegatedRole(files["targets"].signed, role)
     /\ files[role] # NoFile
     /\ files[role].signed.targets # disk
     /\ VersionsBounded(st1.files)
     /\ files' = st1.files
     /\ root_history' = st1.hist
     /\ last' = [op |-> "update_targets", role |-> role, user |-> user, ok |-> TRUE]
     /\ UNCHANGED <<prev, prev_history, state_file, now>>

\* publish(directory) raises when a file it copies does not exist
PublishOk(fs) ==
  /\ fs["timestamp"] # NoFile
  /\ fs["snapshot"] # NoFile
  /\ \A f \in DOMAIN fs["snapshot"].signed.meta : fs[f] # NoFile
\* publish as it would be if it copied snapshot.json under its own name
PublishedMetadataPlainSnapshot(fs, hist) ==
  {ToString(v) \o ".root.json" : v \in DOMAIN hist}
    \cup {"timestamp.json"}
    \cup {"snapshot.json"}
    \cup {ToString(fs["snapshot"].signed.meta[f]) \o "." \o f \o ".json" :
            f \in DOMAIN fs["snapshot"].signed.meta}
\* publish(directory): the files of <directory>/metadata
PublishedMetadata(fs, hist) ==
  {ToString(v) \o ".root.json" : v \in DOMAIN hist}
    \cup {"timestamp.json"}
    \cup {ToString(fs["snapshot"].signed.version) \o ".snapshot.json"}
    \cup {ToString(fs["snapshot"].signed.meta[f]) \o "." \o f \o ".json" :
            f \in DOMAIN fs["snapshot"].signed.meta}
\* publish(directory): the files of <directory>/targets, [parent, name]
PublishedTargets(fs) ==
  UNION {UNION {{[parent |-> p.parent,
                  name |-> fs[f].signed.targets[p][a] \o "." \o p.name] :
                   a \in DOMAIN fs[f].signed.targets[p]} :
                p \in DOMAIN fs[f].signed.targets} :
         f \in DOMAIN fs["snapshot"].signed.meta}
\* publish.py: the checked-out tree is published as it is
PublishCmd ==
  /\ last' = [op |-> "publish", role |-> "", user |-> "", ok |-> PublishOk(files)]
  /\ UNCHANGED <<files, root_history, prev, prev_history, state_file, now>>

\* the target files a role may have on disk: path -> hashes
TargetPath(role) == [parent |-> IF role = "targets" THEN "" ELSE role, name |-> "f1"]
DiskChoices(role) ==
  {EmptyDict} \cup {[p \in {TargetPath(role)} |-> [a \in {"sha256"} |-> h]] : h \in {"h1", "h2"}}
\* The signing event the status command reads may hold a role file written
\* by other means than the signing tool: its payload has the given expiry
\* date, and the signatures in the file are those of the payload before.
WriteExpires(role, expires) ==
  /\ files[role] # NoFile
  /\ files[role].signed.expires # expires
  /\ files' = [files EXCEPT ![role].signed.expires = expires]
  /\ last' = [op |-> "write_expires", role |-> role, user |-> "", ok |-> TRUE]
  /\ UNCHANGED <<root_history, prev, prev_history, state_file, now>>
OnlineConfigs ==
  {[keys |-> ks, timestamp_expiry |-> 1, snapshot_expiry |-> 2] : ks \in OnlineKeyLists}

\* The configurations the signing events of the root role use
RootConfigs ==
  {c \in OfflineConfigs :
     /\ c.expiry_period = 2
     /\ c.threshold <= (IF Cardinality(c.signers) < 2 THEN 1 ELSE 2)}
\* The configuration of root and targets when the repository is initialized
InitConfig ==
  [signers |-> {"@a"}, threshold |-> 1, expiry_period |-> 2, signing_period |-> 1]
\* The configurations of the delegated role
DelegConfigs ==
  {c \in OfflineConfigs : c.signers \in {{}, {"@a"}} /\ c.threshold = 1}

\* Signing events on root, by two maintainers
Next ==
  \/ \E u \in Users, c \in RootConfigs :
       SetRoleConfig(u, "root", c, KeyFor(u, c.signers))
  \/ \E u \in Users : Sign(u, "root")
  \/ Merge
  \/ BumpOffline("root")
Spec == Init /\ [][Next]_vars

\* The online roles and the expiry of every role, as time passes
NextOnline ==
  \/ \E oc \in OnlineConfigs : InitRepository("@a", InitConfig, InitConfig, oc)
  \/ \E r \in TopLevel \ OnlineRoles : Sign("@a", r)
  \/ Merge
  \/ \E e \in SignerEnvs : SnapshotCmd(e)
  \/ \E e \in SignerEnvs : BumpOnline(e)
  \/ \E r \in TopLevel \ OnlineRoles : BumpOffline(r)
  \/ Tick
SpecOnline == Init /\ [][NextOnline]_vars

\* Signing events on a delegated targets role, and the snapshots after them
NextDeleg ==
  \/ \E oc \in OnlineConfigs : InitRepository("@a", InitConfig, InitConfig, oc)
  \/ \E c \in DelegConfigs : SetRoleConfig("@a", "d1", c, KeyFor("@a", c.signers))
  \/ \E r \in OfflineRoles : Sign("@a", r)
  \/ Merge
  \/ \E e \in SignerEnvs : SnapshotCmd(e)
  \/ BumpOffline("targets")
SpecDeleg == Init /\ [][NextDeleg]_vars

\* ---- Properties ------------------------------------------------------------
\* the operations of the signer tool that close an edit scope
SignerEdits == {"set_role_config", "init_repository", "set_online_config"}

\* C1: every role file an edit of the signer tool writes has the version of the
\* known-good copy plus one (one when there is no known-good copy), however
\* many edit scopes of the signing event have closed on it before.
C1_VersionIsBaselinePlusOne ==
  [][\A r \in OfflineRoles :
       (last'.op \in SignerEdits /\ files'[r] # files[r])
         => files'[r].signed.version = PrevVersion(r) + 1]_vars
\* targets has a known-good copy of version 1; the signing event has written it
\* when it created the delegation of d1, and the last edit has written it again
\* to add the key of the signer of d1
C1_Witness ==
  /\ last.op = "set_role_config"
  /\ ~last.d_abort
  /\ prev["targets"] # NoFile
  /\ prev["targets"].signed.version = 1
  /\ prev["targets"].signed.delegations.roles = EmptyDict
  /\ files["targets"].signed.version = 2
  /\ HasDelegatedRole(files["targets"].signed, "d1")
  /\ GetDelegatedRole(files["targets"].signed, "d1").keyids # <<>>

\* C2: an edit scope that raises AbortEdit writes nothing.  A set_role_config
\* whose two scopes both abort leaves every file and root_history as they
\* were; when one scope aborts the result is what the other scope alone
\* writes; bump_expiring outside the signing period leaves them as they were.
C2_AbortWritesNothing ==
  [][/\ (last'.op = "set_role_config" /\ last'.d_abort /\ last'.r_abort)
          => (files' = files /\ root_history' = root_history)
     /\ (last'.op = "set_role_config" /\ last'.d_abort /\ ~last'.r_abort)
          => \E c \in OfflineConfigs :
               LET st == AfterRoleEdit(Store, last'.role, c, last'.user)
               IN files' = st.files /\ root_history' = st.hist
     /\ (last'.op = "set_role_config" /\ ~last'.d_abort /\ last'.r_abort)
          => \E c \in OfflineConfigs : \E k \in {NoKey, UserKey(last'.user)} :
               LET st == AfterDelegatorEdit(Store, last'.role, c, k, last'.user)
               IN files' = st.files /\ root_history' = st.hist
     /\ (last'.op = "bump_offline" /\ last'.ok /\ ~BumpNeeded(files, last'.role))
          => (files' = files /\ root_history' = root_history)
    ]_vars
\* a set_role_config on a signed root that changed neither the delegation nor
\* the periods has returned
C2_Witness ==
  /\ last.op = "set_role_config"
  /\ last.d_abort
  /\ last.r_abort
  /\ files["root"] # NoFile
  /\ \E k \in DOMAIN files["root"].signatures :
       files["root"].signatures[k] # EmptySignature(k)
  /\ files["root"].signed.version \in DOMAIN root_history

\* the signatures of md by keys root lists for the role that verify over md
OnlineVerifying(root, role, md) ==
  {k \in Range(root.roles[role].keyids) :
     /\ k \in DOMAIN root.keys
     /\ k \in DOMAIN md.signatures
     /\ md.signatures[k] = [keyid |-> k, sig |-> md.signed]}

\* C3: whenever snapshot.json or timestamp.json changes, the new file carries
\* at least the threshold root sets for the role of verifying signatures by
\* keys root lists for it; a CI run whose signing or threshold check fails
\* leaves every file as it was.
C3_OnlineWritesVerified ==
  [][/\ \A r \in OnlineRoles :
          files'[r] # files[r]
            => Cardinality(OnlineVerifying(files["root"].signed, r, files'[r]))
                 >= files["root"].signed.roles[r].threshold
     /\ (last'.op \in {"snapshot", "bump_online"} /\ ~last'.ok) => files' = files
    ]_vars
\* a bump of the online roles has failed in close() while snapshot.json and
\* timestamp.json exist and the snapshot is due
C3_Witness ==
  /\ last.op = "bump_online"
  /\ ~last.ok
  /\ files["snapshot"] # NoFile
  /\ files["timestamp"] # NoFile
  /\ BumpNeeded(files, "snapshot")
  /\ files["snapshot"].signed.version = 1

\* C4: when a signing event is merged, every role that had a known-good copy
\* and was changed by the event has the known-good version plus one, so the
\* versions of a role in successive events grow by exactly one.
C4_CommittedVersionGrowsByOne ==
  [][last'.op = "merge"
       => \A r \in OfflineRoles :
            (prev[r] # NoFile /\ prev'[r] # prev[r])
              => prev'[r].signed.version = prev[r].signed.version + 1]_vars
\* a second signing event on root has been merged
C4_Witness ==
  /\ last.op = "merge"
  /\ prev["root"] # NoFile
  /\ prev["root"].signed.version = 2
  /\ 1 \in DOMAIN prev_history
  /\ prev_history[1].signed # prev["root"].signed

\* root version v + 1 of a history verifies under the root role of version v
\* and under its own root role
ChainHolds(hist) ==
  \A v \in DOMAIN hist :
    (v + 1) \in DOMAIN hist
      => /\ VerifyDelegate(hist[v].signed, "root", hist[v + 1])
         /\ VerifyDelegate(hist[v + 1].signed, "root", hist[v + 1])

\* C5 as stated: every consecutive pair of root versions in root_history of
\* the working tree is a verified chain.
C5_HistoryChain == ChainHolds(root_history)

\* C5: every consecutive pair of root versions in the root_history of the
\* known-good tree is a verified chain: version v + 1 carries a threshold of
\* signatures under the keys of version v and under its own keys.
C5_CommittedHistoryChain == ChainHolds(prev_history)
\* a root that replaces the only root key has been merged
C5_Witness ==
  /\ 1 \in DOMAIN prev_history
  /\ 2 \in DOMAIN prev_history
  /\ prev_history[1].signed.roles["root"].keyids # <<>>
  /\ prev_history[2].signed.roles["root"].keyids # <<>>
  /\ Range(prev_history[1].signed.roles["root"].keyids)
       \cap Range(prev_history[2].signed.roles["root"].keyids) = {}

\* C6 as stated: every step that changes root.json leaves the same content at
\* root_history/<version>.root.json and leaves the root_history files of the
\* other versions as they were.
C6_RootWriteArchived ==
  [][files'["root"] # files["root"]
       => LET v == files'["root"].signed.version
          IN /\ v \in DOMAIN root_history'
             /\ root_history'[v] = files'["root"]
             /\ \A w \in (DOMAIN root_history) \ {v} :
                  w \in DOMAIN root_history' /\ root_history'[w] = root_history[w]
    ]_vars

\* the keyids the delegator of a role lists for it, with a key, whose
\* signature in the role file is over the payload of the file
ListedVerifying(fs, r) ==
  LET d == fs[DelegatorOf(r)].signed
      entry == IF DelegatorOf(r) = "root" THEN d.roles[r] ELSE d.delegations.roles[r]
      keys == IF DelegatorOf(r) = "root" THEN d.keys ELSE d.delegations.keys
  IN {k \in Range(entry.keyids) :
        /\ k \in DOMAIN keys
        /\ k \in DOMAIN fs[r].signatures
        /\ fs[r].signatures[k] = [keyid |-> k, sig |-> fs[r].signed]}
ThresholdOf(fs, r) ==
  LET d == fs[DelegatorOf(r)].signed
  IN IF DelegatorOf(r) = "root" THEN d.roles[r].threshold
     ELSE d.delegations.roles[r].threshold

\* C7: whenever status(R).valid is true, at least threshold distinct keyids
\* that the delegator lists for R have a verifying signature in R.
C7_ValidMeetsThreshold ==
  \A r \in OfflineRoles :
    (StatusOk(files, r) /\ Status(files, state_file, r).valid)
      => Cardinality(ListedVerifying(files, r)) >= ThresholdOf(files, r)
\* root is valid with threshold 2
C7_Witness ==
  /\ StatusOk(files, "root")
  /\ Status(files, state_file, "root").valid
  /\ Status(files, state_file, "root").threshold = 2
  /\ Status(files, state_file, "root").signed = Users

\* status(r).valid after the signature entries of the keyids in S are removed
\* from the file of r
ValidWithout(r, S) ==
  LET sigs == files[r].signatures
      md == [files[r] EXCEPT !.signatures = [k \in (DOMAIN sigs) \ S |-> sigs[k]]]
  IN Status([files EXCEPT ![r] = md], state_file, r).valid

\* C8 as stated: removing any threshold - 1 signature entries of a valid role
\* keeps it valid, and removing any threshold entries makes it invalid.
C8_RemovalByCount ==
  \A r \in OfflineRoles :
    (StatusOk(files, r) /\ Status(files, state_file, r).valid)
      => \A S \in SUBSET DOMAIN files[r].signatures :
           /\ Cardinality(S) = ThresholdOf(files, r) - 1 => ValidWithout(r, S)
           /\ Cardinality(S) = ThresholdOf(files, r) => ~ValidWithout(r, S)

\* C8: a valid role stays valid after a set of its signature entries is
\* removed exactly when at least threshold verifying signatures by keys the
\* delegator lists remain.
C8_RemovalByRemaining ==
  \A r \in OfflineRoles :
    (StatusOk(files, r) /\ Status(files, state_file, r).valid)
      => \A S \in SUBSET DOMAIN files[r].signatures :
           ValidWithout(r, S)
             <=> Cardinality(ListedVerifying(files, r) \ S) >= ThresholdOf(files, r)
\* root is valid with threshold 1 and the verifying signatures of two keys
C8_Witness ==
  /\ StatusOk(files, "root")
  /\ Status(files, state_file, "root").valid
  /\ ThresholdOf(files, "root") = 1
  /\ Cardinality(ListedVerifying(files, "root")) = 2

\* the signature entry of keyid k in md is a signature by k over the payload
EntryVerifies(md, k) == md.signatures[k] = [keyid |-> k, sig |-> md.signed]

\* C9 as stated: every signature entry of every metadata file verifies over
\* the payload of the file; no empty or non-verifying entry is stored.
C9_EverySignatureVerifies ==
  \A r \in Roles : \A k \in DOMAIN files[r].signatures : EntryVerifies(files[r], k)

\* C9: in root, targets and delegated targets files every signature entry is
\* either the empty placeholder of its keyid or a signature that verifies over
\* the payload of the file; in snapshot and timestamp files at least the
\* threshold root sets of the entries by listed keys verify.
C9_PlaceholderOrVerifies ==
  /\ \A r \in OfflineRoles : \A k \in DOMAIN files[r].signatures :
       files[r].signatures[k] = EmptySignature(k) \/ EntryVerifies(files[r], k)
  /\ \A r \in OnlineRoles :
       files[r] # NoFile
         => Cardinality(OnlineVerifying(files["root"].signed, r, files[r]))
              >= files["root"].signed.roles[r].threshold
\* targets was bumped by the repository and holds the placeholder of its
\* signer, root holds the signature of its signer, and snapshot is signed
C9_Witness ==
  /\ last.op = "bump_offline"
  /\ files["targets"] # NoFile
  /\ files["targets"].signed.version = 2
  /\ \E k \in DOMAIN files["targets"].signatures :
       files["targets"].signatures[k] = EmptySignature(k)
  /\ \E k \in DOMAIN files["root"].signatures : EntryVerifies(files["root"], k)
  /\ files["snapshot"] # NoFile

\* snapshot.meta lists exactly the roles in names, each with the version in
\* its file
MetaCovers(names) ==
  /\ DOMAIN files["snapshot"].signed.meta = names
  /\ \A f \in names : files["snapshot"].signed.meta[f] = files[f].signed.version

\* C10 as stated: after the snapshot command, snapshot.meta lists exactly the
\* metadata files other than snapshot and timestamp, root included, each with
\* the version in the file.
C10_SnapshotCoversAllFiles ==
  (last.op = "snapshot" /\ last.ok)
    => MetaCovers({r \in Roles \ OnlineRoles : files[r] # NoFile})

\* C10: after the snapshot command, snapshot.meta lists exactly targets and
\* the roles targets delegates to, each with the version in its file; root
\* has no entry.
C10_SnapshotCoversTargets ==
  (last.op = "snapshot" /\ last.ok)
    => MetaCovers({"targets"} \cup DOMAIN files["targets"].signed.delegations.roles)
\* a snapshot after the signing event that delegated d1 lists d1 and the new
\* version of targets
C10_Witness ==
  /\ last.op = "snapshot"
  /\ last.ok
  /\ files["snapshot"].signed.version = 2
  /\ "d1" \in DOMAIN files["snapshot"].signed.meta
  /\ files["snapshot"].signed.meta["targets"] = 2
\* C11: after every completed run of the snapshot command or of bump_online,
\* timestamp.json exists whenever snapshot.json does and its snapshot entry is
\* the version of snapshot.json.
C11_TimestampFollowsSnapshot ==
  (last.op \in {"snapshot", "bump_online"} /\ last.ok /\ files["snapshot"] # NoFile)
    => /\ files["timestamp"] # NoFile
       /\ files["timestamp"].signed.snapshot_meta = files["snapshot"].signed.version
\* bump_online has written snapshot version 2 and the timestamp that refers
\* to it
C11_Witness ==
  /\ last.op = "bump_online"
  /\ last.ok
  /\ files["snapshot"] # NoFile
  /\ files["snapshot"].signed.version = 2
  /\ files["snapshot"].signed.meta # EmptyDict
  /\ files["timestamp"].signed.snapshot_meta = 2

\* Target files, snapshots and the published tree
NextPublish ==
  \/ \E oc \in OnlineConfigs : InitRepository("@a", InitConfig, InitConfig, oc)
  \/ \E c \in DelegConfigs :
       /\ c.expiry_period = 2
       /\ SetRoleConfig("@a", "d1", c, KeyFor("@a", c.signers))
  \/ \E r \in {"targets", "d1"} : \E disk \in DiskChoices(r) : UpdateTargets("@a", r, disk)
  \/ \E r \in {"targets", "d1"} : Sign("@a", r)
  \/ Merge
  \/ \E e \in {e \in SignerEnvs : e.good # {"ko1"}} : SnapshotCmd(e)
  \/ PublishCmd
SpecPublish == Init /\ [][NextPublish]_vars

\* the (role, target path, hash algorithm) triples of the roles in snapshot.meta
TargetHashPairs(fs) ==
  {<<f, p, a>> \in (DOMAIN fs["snapshot"].signed.meta)
                     \X {TargetPath(r) : r \in OfflineRoles} \X {"sha256"} :
     p \in DOMAIN fs[f].signed.targets /\ a \in DOMAIN fs[f].signed.targets[p]}

\* C12: a publish that succeeds emits <v>.root.json for every version of
\* root_history, <v>.snapshot.json, timestamp.json and <v>.<role>.json for
\* every entry of snapshot.meta, |root_history| + 1 + 1 + |snapshot.meta|
\* metadata files in all, and one target file per (target, hash) pair of the
\* roles in snapshot.meta.
C12_PublishComplete ==
  (last.op = "publish" /\ last.ok)
    => LET meta == files["snapshot"].signed.meta
           out == PublishedMetadata(files, root_history)
       IN /\ \A v \in DOMAIN root_history : (ToString(v) \o ".root.json") \in out
          /\ "timestamp.json" \in out
          /\ (ToString(files["snapshot"].signed.version) \o ".snapshot.json") \in out
          /\ \A f \in DOMAIN meta : (ToString(meta[f]) \o "." \o f \o ".json") \in out
          /\ Cardinality(out)
               = Cardinality(DOMAIN root_history) + 1 + 1 + Cardinality(DOMAIN meta)
          /\ Cardinality(PublishedTargets(files)) = Cardinality(TargetHashPairs(files))
\* a repository with a delegated role and a target file in each targets role
\* has been published
C12_Witness ==
  /\ last.op = "publish"
  /\ last.ok
  /\ "d1" \in DOMAIN files["snapshot"].signed.meta
  /\ files["d1"].signed.targets # EmptyDict
  /\ files["targets"].signed.targets # EmptyDict

\* status(role).valid is false for a reason that does not involve the
\* known-good directory (publish.py opens the repository without one)
InvalidByStatus(fs, sf, role) ==
  /\ StatusOk(fs, role)
  /\ ~Status(fs, sf, role).valid
  /\ Status(fs, sf, role).message # "version"

\* C13: when the status of a role is invalid, publish refuses: it fails and
\* emits no output tree.
C13_PublishRefusesInvalid ==
  (last.op = "publish" /\ \E r \in OfflineRoles : InvalidByStatus(files, state_file, r))
    => ~last.ok

\* the checks of _validate_role that come with a message
VersionRegression(fs, role) ==
  prev[role] # NoFile /\ fs[role].signed.version <= prev[role].signed.version
ExcessiveExpiry(fs, role) ==
  fs[role].signed.expires > now + fs[role].signed.expiry_period

OwnsKeyFor(fs, role, user, keyid) ==
  /\ fs[DelegatorOf(role)] # NoFile
  /\ HasDelegatedRole(fs[DelegatorOf(role)].signed, role)
  /\ keyid \in Range(GetDelegatedRole(fs[DelegatorOf(role)].signed, role).keyids)
  /\ keyid \in DOMAIN KeysOf(fs[DelegatorOf(role)].signed)
  /\ KeysOf(fs[DelegatorOf(role)].signed)[keyid].owner = user

\* C15: when a user who is invited to root calls set_role_config with the
\* configuration that still names them and with their key, the event state
\* afterwards does not hold root among their invitations and the key is listed
\* for root in the delegator with the user as key owner.
C15_AcceptBindsKey ==
  [][\A u \in Users, c \in RootConfigs :
       (/\ u \in InvitedSignersForRole(state_file, "root")
        /\ u \in c.signers
        /\ SetRoleConfig(u, "root", c, UserKey(u)))
         => /\ u \notin InvitedSignersForRole(state_file', "root")
            /\ OwnsKeyFor(files', "root", u, UserKey(u).keyid)]_vars
\* @b has accepted the invitation to root
C15_Witness ==
  /\ last.op = "set_role_config"
  /\ last.user = "@b"
  /\ last.invited
  /\ ~last.d_abort
  /\ "@b" \notin InvitedSignersForRole(state_file, "root")
  /\ OwnsKeyFor(files, "root", "@b", UserKey("@b").keyid)
  /\ OwnsKeyFor(files, "root", "@a", UserKey("@a").keyid)

\* Scenario "invite": @a, the only root signer (threshold 1, no invitation
\* open), sets the root configuration to signers @a and @b, threshold 2
InviteToRoot ==
  /\ files["root"] # NoFile
  /\ OwnsKeyFor(files, "root", "@a", UserKey("@a").keyid)
  /\ ~OwnsKeyFor(files, "root", "@b", UserKey("@b").keyid)
  /\ GetDelegatedRole(files["root"].signed, "root").threshold = 1
  /\ ~state_file.exists
  /\ \E c \in RootConfigs :
       /\ c.signers = {"@a", "@b"}
       /\ c.threshold = 2
       /\ SetRoleConfig("@a", "root", c, UserKey("@a"))

\* C16 as stated: the invitation of @b with threshold 2 records the
\* invitation and leaves the version of root as it was.
C16_InviteKeepsVersion ==
  [][InviteToRoot
       => /\ LoadInvites(state_file') = [u \in {"@b"} |-> {"root"}]
          /\ files'["root"].signed.version = files["root"].signed.version]_vars
\* C16: the invitation of @b with threshold 2 records {@b: [root]} in the
\* event state and rewrites root at the known-good version plus one (the
\* new threshold is a change of the delegator); status(root) then reports
\* invites = {@b}, threshold = 2 and valid = false.
C16_InviteBumpsVersion ==
  [][InviteToRoot
       => /\ LoadInvites(state_file') = [u \in {"@b"} |-> {"root"}]
          /\ files'["root"].signed.version = PrevVersionPlusOne("root")
          /\ Status(files', state_file', "root").invites = {"@b"}
          /\ Status(files', state_file', "root").threshold = 2
          /\ ~Status(files', state_file', "root").valid]_vars
\* @a has invited @b to a merged root of version 1: root is at version 2
C16_Witness ==
  /\ last.op = "set_role_config"
  /\ last.user = "@a"
  /\ ~last.d_abort
  /\ prev["root"] # NoFile
  /\ prev["root"].signed.version = 1
  /\ GetDelegatedRole(prev["root"].signed, "root").threshold = 1
  /\ files["root"].signed.version = 2
  /\ LoadInvites(state_file) = [u \in {"@b"} |-> {"root"}]
  /\ ~OwnsKeyFor(files, "root", "@b", UserKey("@b").keyid)
  /\ Status(files, state_file, "root").threshold = 2
  /\ ~Status(files, state_file, "root").valid

\* Scenario "accept": @b, the only invited user, accepts the invitation to
\* root with the configuration get_role_config returns (signers @a and @b,
\* the threshold as it is)
AcceptRoot ==
  /\ files["root"] # NoFile
  /\ LoadInvites(state_file) = [u \in {"@b"} |-> {"root"}]
  /\ OwnsKeyFor(files, "root", "@a", UserKey("@a").keyid)
  /\ \E c \in RootConfigs :
       /\ c.signers = {"@a", "@b"}
       /\ c.threshold = GetDelegatedRole(files["root"].signed, "root").threshold
       /\ SetRoleConfig("@b", "root", c, UserKey("@b"))
\* @b signs root right after accepting, the threshold being 2
SignAfterAccept ==
  /\ last.op = "set_role_config"
  /\ last.role = "root"
  /\ last.user = "@b"
  /\ last.invited
  /\ ~last.d_abort
  /\ ~state_file.exists
  /\ GetDelegatedRole(files["root"].signed, "root").threshold = 2
  /\ Sign("@b", "root")

\* C17 as stated: after @b accepts, root is at the baseline version plus one,
\* lists Kb, the event state is empty and status(root) still has @a as
\* signed and @b as missing; @b's signature then makes root valid.
C17_AcceptKeepsSignatures ==
  [][/\ AcceptRoot
          => /\ files'["root"].signed.version = PrevVersionPlusOne("root")
             /\ OwnsKeyFor(files', "root", "@b", UserKey("@b").keyid)
             /\ ~state_file'.exists
             /\ Status(files', state_file', "root").signed = {"@a"}
             /\ Status(files', state_file', "root").missing = {"@b"}
     /\ SignAfterAccept
          => /\ Status(files', state_file', "root").signed = {"@a", "@b"}
             /\ Status(files', state_file', "root").valid]_vars
\* C17: after @b accepts, root is at the baseline version plus one, lists Kb
\* and the event state is empty; close() has cleared the signatures, so
\* status(root) has signed = {} and missing = {@a, @b}.  After @b's sign(root)
\* signed = {@b}, missing = {@a}, and with threshold 2 root is not valid
\* before @a signs again.
C17_AcceptClearsSignatures ==
  [][/\ AcceptRoot
          => /\ files'["root"].signed.version = PrevVersionPlusOne("root")
             /\ OwnsKeyFor(files', "root", "@b", UserKey("@b").keyid)
             /\ ~state_file'.exists
             /\ Status(files', state_file', "root").signed = {}
             /\ Status(files', state_file', "root").missing = {"@a", "@b"}
     /\ SignAfterAccept
          => /\ Status(files', state_file', "root").signed = {"@b"}
             /\ Status(files', state_file', "root").missing = {"@a"}
             /\ ~Status(files', state_file', "root").valid]_vars
\* @b has accepted the invitation to the merged root of version 1, threshold 2
C17_Witness ==
  /\ last.op = "set_role_config"
  /\ last.role = "root"
  /\ last.user = "@b"
  /\ last.invited
  /\ ~last.d_abort
  /\ ~state_file.exists
  /\ prev["root"] # NoFile
  /\ prev["root"].signed.version = 1
  /\ files["root"].signed.version = 2
  /\ GetDelegatedRole(files["root"].signed, "root").threshold = 2
  /\ OwnsKeyFor(files, "root", "@b", UserKey("@b").keyid)
  /\ Status(files, state_file, "root").signed = {}
  /\ Status(files, state_file, "root").missing = {"@a", "@b"}

\* the keys of the role that belong to the user (the keys sign() looks for)
KeysOwnedBy(fs, role, user) ==
  {k \in DOMAIN SignerGetKeys(fs, role) : SignerGetKeys(fs, role)[k].owner = user}

\* C18: sign(role) by a user who owns no key of the role in the role's
\* delegator fails (NotASigner) and writes nothing.
C18_NonSignerFails ==
  (/\ last.op = "sign"
   /\ SignerGetKeysOk(files, last.role)
   /\ KeysOwnedBy(files, last.role, last.user) = {})
    => ~last.ok

\* the file of the role carries a verifying signature by a key of the user
SignedBy(fs, role, user) ==
  \E k \in DOMAIN KeysOf(fs[DelegatorOf(role)].signed) :
    /\ OwnsKeyFor(fs, role, user, k)
    /\ k \in DOMAIN fs[role].signatures
    /\ VerifySignature(KeysOf(fs[DelegatorOf(role)].signed)[k],
                       fs[role].signatures[k], fs[role].signed)

\* C19: when root is closed by set_role_config and no invitation is open,
\* close signs root with the closing user's key: the user owning a key of
\* root, the written file carries their verifying signature.
C19_CloseSignsWithoutInvites ==
  \A u \in Users :
    (/\ last.op = "set_role_config"
     /\ last.role = "root"
     /\ last.user = u
     /\ ~(last.d_abort /\ last.r_abort)
     /\ ~state_file.exists
     /\ \E k \in DOMAIN KeysOf(files["root"].signed) : OwnsKeyFor(files, "root", u, k))
      => SignedBy(files, "root", u)

\* the keyids a root file lists for the role 'root'
RootKeyids(md) ==
  IF md = NoFile THEN {}
  ELSE Range(GetDelegatedRole(md.signed, "root").keyids) \cap DOMAIN KeysOf(md.signed)

\* C20: when root is closed, a signature entry (placeholder or signature) is
\* written for every key of 'root' in the baseline root and in the new root,
\* and a key of the closing user is signed with.
C20_RootEntriesCoverUnion ==
  \A u \in Users :
    (/\ last.op = "set_role_config"
     /\ last.role = "root"
     /\ last.user = u
     /\ ~(last.d_abort /\ last.r_abort))
      => /\ RootKeyids(prev["root"]) \cup RootKeyids(files["root"])
              \subseteq DOMAIN files["root"].signatures
         /\ (UserKey(u).keyid \in RootKeyids(files["root"]) /\ ~state_file.exists)
              => EntryVerifies(files["root"], UserKey(u).keyid)

\* C21: a bump_expiring(role) that completes returns None and writes nothing
\* when now + signing period < expires; otherwise it writes role at the
\* version of the file plus one with expires = now + expiry period, leaves
\* the other files alone and returns that version.
C21_BumpWhenExpiring ==
  \A r \in Roles : \A e \in SignerEnvs :
    BumpExpiring(files, r, e).ok
      => LET b == BumpExpiring(files, r, e)
         IN IF now + SigningPeriod(files, r) < RepoOpen(files, r).signed.expires
            THEN /\ ~b.bumped
                 /\ b.files = files
                 /\ BumpExpiringReturn(files, r, e) = <<>>
            ELSE /\ b.bumped
                 /\ b.files[r].signed.version = RepoOpen(files, r).signed.version + 1
                 /\ b.files[r].signed.expires = now + ExpiryPeriod(files, r)
                 /\ \A o \in Roles \ {r} : b.files[o] = files[o]
                 /\ BumpExpiringReturn(files, r, e) = <<RepoOpen(files, r).signed.version + 1>>
\* bump_offline has bumped targets a day after it was written, and the new
\* version is itself not due for a bump
C21_Witness ==
  /\ last.op = "bump_offline"
  /\ last.role = "targets"
  /\ last.ok
  /\ now = 1
  /\ prev["targets"].signed.version = 1
  /\ files["targets"].signed.version = 2
  /\ files["targets"].signed.expires = now + ExpiryPeriod(files, "targets")
  /\ BumpExpiringReturn(files, "targets", NoSigner) = <<>>

\* C22: six hours before the timestamp file expires, with no signing period
\* configured for timestamp, bump_expiring(timestamp) bumps the role.
C22_BumpSixHoursBeforeExpiry ==
  (/\ files["root"] # NoFile
   /\ files["timestamp"] # NoFile
   /\ PeriodsOk(files, "timestamp")
   /\ "signing" \notin DOMAIN files["root"].signed.roles["timestamp"].fields)
    => BumpNeededAtQuarter(4 * files["timestamp"].signed.expires - 1,
                           4 * files["timestamp"].signed.expires,
                           SigningPeriod(files, "timestamp"))

\* C23: after set_role_config(root, config, key) every keyid root still lists
\* for 'root' belongs to an owner named in config.signers.
C23_RemovedSignersRevoked ==
  [][\A u \in Users, c \in RootConfigs :
       SetRoleConfig(u, "root", c, KeyFor(u, c.signers))
         => \A k \in RootKeyids(files'["root"]) :
              KeysOf(files'["root"].signed)[k].owner \in c.signers]_vars

\* Invitations to root and targets, by two maintainers
InviteConfigs ==
  {c \in OfflineConfigs :
     /\ "@a" \in c.signers
     /\ c.threshold = 1
     /\ c.expiry_period = 2}
NextInvites ==
  \/ \E oc \in OnlineConfigs :
       Len(oc.keys) = 1 /\ InitRepository("@a", InitConfig, InitConfig, oc)
  \/ \E u \in Users, r \in TopLevel \ OnlineRoles, c \in InviteConfigs :
       SetRoleConfig(u, r, c, KeyFor(u, c.signers))
SpecInvites == Init /\ [][NextInvites]_vars

\* the roles the event state invites the user to
InvitedRoles(sf, user) ==
  IF user \in DOMAIN LoadInvites(sf) THEN LoadInvites(sf)[user] ELSE {}
\* the owners of the keys the on-disk delegator lists for the role
KeyOwners(fs, role) ==
  {SignerGetKeys(fs, role)[k].owner : k \in DOMAIN SignerGetKeys(fs, role)}

\* C24 as stated: set_role_config(role, ...) removes only the current user's
\* invitation to role; the invitation of another identity to role stays, and
\* invitations to other roles are unchanged.
C24_OnlyOwnInviteRemoved ==
  [][\A u \in Users, r \in TopLevel \ OnlineRoles, c \in InviteConfigs :
       SetRoleConfig(u, r, c, KeyFor(u, c.signers))
         => /\ \A x \in Users \ {u} :
                 r \in InvitedRoles(state_file, x) => r \in InvitedRoles(state_file', x)
            /\ \A x \in Users :
                 InvitedRoles(state_file', x) \ {r} = InvitedRoles(state_file, x) \ {r}]_vars
\* C24: set_role_config(role, config, key) drops every identity's invitation
\* to role and invites every configured signer without a key for role, the
\* current user accepting at once when a key is passed; afterwards exactly
\* the configured signers without a key, other than an accepting user, are
\* invited to role, and invitations to other roles are unchanged.
C24_InvitesFollowConfig ==
  [][\A u \in Users, r \in TopLevel \ OnlineRoles, c \in InviteConfigs :
       SetRoleConfig(u, r, c, KeyFor(u, c.signers))
         => /\ \A x \in Users :
                 r \in InvitedRoles(state_file', x)
                   <=> /\ x \in c.signers \ KeyOwners(files, r)
                       /\ ~(x = u /\ KeyFor(u, c.signers) # NoKey)
            /\ \A x \in Users :
                 InvitedRoles(state_file', x) \ {r} = InvitedRoles(state_file, x) \ {r}]_vars
\* after set_role_config on root by @a, @b is not invited to root and @b's
\* invitation to targets is still there
C24_Witness ==
  /\ last.op = "set_role_config"
  /\ last.role = "root"
  /\ last.user = "@a"
  /\ InvitedRoles(state_file, "@b") = {"targets"}
  /\ "@b" \notin KeyOwners(files, "root")
  /\ "@b" \notin KeyOwners(files, "targets")

\* C25: after set_role_config the .signing-event-state file exists exactly
\* when an invitation is pending, and no identity in it has an empty list of
\* roles.
C25_StateFileIffInvites ==
  last.op = "set_role_config"
    => /\ state_file.exists <=> (\E u \in Users : InvitedRoles(state_file, u) # {})
       /\ state_file.exists <=> DOMAIN state_file.invites # {}
       /\ \A u \in DOMAIN state_file.invites : state_file.invites[u] # {}
\* @b, invited when the call began, has accepted the last open invitation:
\* the file is gone
C25_Witness ==
  /\ last.op = "set_role_config"
  /\ last.user = "@b"
  /\ last.invited
  /\ ~last.d_abort
  /\ ~state_file.exists
  /\ "@b" \in KeyOwners(files, last.role)

\* C26 as stated: a role with a baseline is reported invalid with the message
\* "Unexpected version" exactly when its version is not above the baseline's.
C26_UnexpectedVersion ==
  \A r \in OfflineRoles :
    (StatusOk(files, r) /\ prev[r] # NoFile)
      => (files[r].signed.version <= prev[r].signed.version
            <=> /\ ~Status(files, state_file, r).valid
                /\ StatusMessage(files, state_file, r) = "Unexpected version")
\* C26: a role with a baseline is reported invalid with the message
\* "Version <version> is not valid for <role>" exactly when its version is
\* not above the baseline's; a role without a baseline never gets that
\* message.
C26_VersionNotValid ==
  \A r \in OfflineRoles :
    StatusOk(files, r)
      => LET text == "Version " \o ToString(files[r].signed.version)
                       \o " is not valid for " \o r
         IN IF prev[r] # NoFile
            THEN files[r].signed.version <= prev[r].signed.version
                   <=> /\ ~Status(files, state_file, r).valid
                       /\ StatusMessage(files, state_file, r) = text
            ELSE StatusMessage(files, state_file, r) # text
\* a merged root that then gained a signature: changed, at the baseline
\* version, and reported with the version message
C26_Witness ==
  /\ prev["root"] # NoFile
  /\ files["root"] # prev["root"]
  /\ files["root"].signed.version = prev["root"].signed.version
  /\ ~Status(files, state_file, "root").valid
  /\ StatusMessage(files, state_file, "root") = "Version 2 is not valid for root"

\* Expiry dates in the signing event of targets
NextExpiry ==
  \/ \E oc \in OnlineConfigs :
       Len(oc.keys) = 1 /\ InitRepository("@a", InitConfig, InitConfig, oc)
  \/ Sign("@a", "targets")
  \/ Merge
  \/ BumpOffline("targets")
  \/ Tick
  \/ \E e \in (now + 1)..(now + 4) : WriteExpires("targets", e)
SpecExpiry == Init /\ [][NextExpiry]_vars

\* C27 as stated: a role whose expires is later than now + its expiry period
\* is reported invalid with the message "Expiry too far".
C27_ExpiryTooFar ==
  \A r \in OfflineRoles :
    (StatusOk(files, r) /\ ExcessiveExpiry(files, r))
      => /\ ~Status(files, state_file, r).valid
         /\ StatusMessage(files, state_file, r) = "Expiry too far"
\* C27: a role whose expires is later than now + its expiry period is
\* reported invalid; the message is "Expiry date is further than expected
\* <days> days ahead" unless the version check has failed before, and no
\* other role gets that message.  A role freshly written by close (at
\* initialization, by bump_offline) passes the expiry check.
C27_ExpiryFurtherThanExpected ==
  /\ \A r \in OfflineRoles :
       StatusOk(files, r)
         => LET text == "Expiry date is further than expected "
                          \o ToString(files[r].signed.expiry_period) \o " days ahead"
            IN /\ ExcessiveExpiry(files, r) => ~Status(files, state_file, r).valid
               /\ (ExcessiveExpiry(files, r) /\ ~VersionRegression(files, r))
                    <=> StatusMessage(files, state_file, r) = text
  /\ last.op = "init_repository"
       => ~ExcessiveExpiry(files, "root") /\ ~ExcessiveExpiry(files, "targets")
  /\ (last.op = "bump_offline" /\ files[last.role] # prev[last.role])
       => ~ExcessiveExpiry(files, last.role)
\* the payload of targets has been written with expires = now + twice its
\* expiry period, and status reports the expiry message
C27_Witness ==
  /\ last.op = "write_expires"
  /\ files["targets"].signed.expires = now + 2 * files["targets"].signed.expiry_period
  /\ ~Status(files, state_file, "targets").valid
  /\ StatusMessage(files, state_file, "targets")
       = "Expiry date is further than expected 2 days ahead"

\* the owners of the keys a root file lists for 'root' whose signature on md
\* verifies
SignedUnder(delegator, md) ==
  {KeysOf(delegator.signed)[k].owner :
     k \in {x \in RootKeyids(delegator) :
              /\ x \in DOMAIN md.signatures
              /\ VerifySignature(KeysOf(delegator.signed)[x], md.signatures[x], md.signed)}}
\* the owners of the keys a root file lists for 'root'
OwnersUnder(delegator) ==
  {KeysOf(delegator.signed)[k].owner : k \in RootKeyids(delegator)}

\* C28: for root with a known-good root, the second status of status(root)
\* has signed, missing, threshold and valid computed over the known-good
\* root's keys and threshold for 'root'.
C28_PrevStatusUnderPrevRoot ==
  (HasPrevStatus("root") /\ StatusOk(files, "root"))
    => LET s == PrevStatus(files, state_file, "root")
       IN /\ s.signed = SignedUnder(prev["root"], files["root"])
          /\ s.missing = OwnersUnder(prev["root"]) \ SignedUnder(prev["root"], files["root"])
          /\ s.threshold = GetDelegatedRole(prev["root"].signed, "root").threshold

\* Invitations of @b to root, targets and the delegated role, made by @a
NextStatusInvites ==
  \/ \E oc \in OnlineConfigs :
       Len(oc.keys) = 1 /\ InitRepository("@a", InitConfig, InitConfig, oc)
  \/ \E r \in OfflineRoles, c \in OfflineConfigs :
       /\ c.threshold = 1
       /\ c.expiry_period = 2
       /\ "@a" \in c.signers \/ (r = "d1" /\ c.signers = {})
       /\ SetRoleConfig("@a", r, c, KeyFor("@a", c.signers))
SpecStatusInvites == Init /\ [][NextStatusInvites]_vars

\* C29: status(R).invites is the set of identities the event state invites
\* to root or targets when R is root, to a role delegated by targets when R
\* is targets, and the empty set when R is a delegated role.
C29_InvitesOfContainedDelegations ==
  \A r \in OfflineRoles :
    StatusOk(files, r)
      => Status(files, state_file, r).invites
           = IF r = "root"
             THEN {u \in Users : InvitedRoles(state_file, u) \cap {"root", "targets"} # {}}
             ELSE IF r = "targets"
             THEN {u \in Users :
                     InvitedRoles(state_file, u)
                       \cap DOMAIN DelegatedRolesOf(files["targets"].signed) # {}}
             ELSE {}
\* @b is invited to targets and to the delegated role only
C29_Witness ==
  /\ InvitedRoles(state_file, "@b") = {"targets", "d1"}
  /\ StatusOk(files, "d1")
  /\ Status(files, state_file, "root").invites = {"@b"}
  /\ Status(files, state_file, "targets").invites = {"@b"}
  /\ Status(files, state_file, "d1").invites = {}

\* DelegatedRole.is_delegated_path for a pattern "<dir>/*": the pattern
\* matches the paths with one directory component, <dir>
PathMatches(path, pattern) == path.parent # "" /\ pattern = path.parent \o "/*"
\* ---- The signer state ---------------------------------------------------------
\* the target files of the signing event: role directory -> path -> hashes
TargetDisks ==
  {d \in [{"targets"} \cup Delegated -> UNION {DiskChoices(r) : r \in {"targets"} \cup Delegated}] :
     \A r \in DOMAIN d :
       /\ d[r] \in DiskChoices(r)
       /\ r # "targets" => \A q \in DOMAIN d[r] : d[r][q]["sha256"] = "h1"}
\* _get_target_states raises ValueError when target files have been added for
\* a role that targets does not delegate
UnknownRolenames(fs, disk) ==
  {r \in DOMAIN disk : disk[r] # EmptyDict}
    \ ({"targets"} \cup GetDelegatedRolenames(SignerOpen(fs, "targets").signed))
\* _get_target_states: the target files that differ from the targets metadata
GetTargetStates(fs, disk) ==
  UNION {LET md == SignerOpen(fs, r).signed.targets
         IN {[role |-> r, path |-> p, state |-> "ADDED"] :
               p \in DOMAIN disk[r] \ DOMAIN md}
            \cup {[role |-> r, path |-> p, state |-> "MODIFIED"] :
                    p \in {q \in DOMAIN disk[r] \cap DOMAIN md : disk[r][q] # md[q]}}
            \cup {[role |-> r, path |-> p, state |-> "REMOVED"] :
                    p \in DOMAIN md \ DOMAIN disk[r]} :
         r \in {"targets"} \cup GetDelegatedRolenames(SignerOpen(fs, "targets").signed)}
\* _find_changed_roles: the role files of the signing event that the known
\* good tree does not have, or has with other content
FindChangedRoles(fs) == {r \in Roles : fs[r] # NoFile /\ (prev[r] = NoFile \/ fs[r] # prev[r])}
\* _user_signature_needed raises when the delegator does not delegate the
\* role (ValueError) or a key of the role names no owner (KeyError)
UserSignatureNeededOk(fs, role) ==
  /\ SignerGetKeysOk(fs, role)
  /\ \A k \in DOMAIN SignerGetKeys(fs, role) : SignerGetKeys(fs, role)[k].owner # ""
\* _user_signature_needed: a key of the user lacks a verifying signature
UserSignatureNeeded(fs, role, user) ==
  \E k \in DOMAIN SignerGetKeys(fs, role) :
    /\ SignerGetKeys(fs, role)[k].owner = user
    /\ ~(/\ k \in DOMAIN fs[role].signatures
         /\ VerifySignature(SignerGetKeys(fs, role)[k], fs[role].signatures[k],
                            fs[role].signed))
\* __init__: self.unsigned
Unsigned(fs, sf, user) ==
  {r \in FindChangedRoles(fs) :
     UserSignatureNeeded(fs, r, user) /\ r \notin InvitedRoles(sf, user)}
\* the signer state as it would be if target changes came before invitations
SignerStateTargetsFirst(fs, sf, user, disk) ==
  IF fs["root"] = NoFile THEN "UNINITIALIZED"
  ELSE IF GetTargetStates(fs, disk) # {} THEN "TARGETS_CHANGED"
  ELSE IF InvitedRoles(sf, user) # {} THEN "INVITED"
  ELSE IF Unsigned(fs, sf, user) # {} THEN "SIGNATURE_NEEDED"
  ELSE "NO_ACTION"
\* __init__: self.state
SignerState(fs, sf, user, disk) ==
  IF fs["root"] = NoFile THEN "UNINITIALIZED"
  ELSE IF InvitedRoles(sf, user) # {} THEN "INVITED"
  ELSE IF GetTargetStates(fs, disk) # {} THEN "TARGETS_CHANGED"
  ELSE IF Unsigned(fs, sf, user) # {} THEN "SIGNATURE_NEEDED"
  ELSE "NO_ACTION"
\* SignerRepository(dir, prev_dir, user_name, ...): the repository is opened
\* by the user with the given target files on disk; nothing is written
OpenRepository(user, disk) ==
  LET opened == /\ UnknownRolenames(files, disk) = {}
                /\ \A r \in FindChangedRoles(files) : UserSignatureNeededOk(files, r)
  IN /\ last' = [op |-> "open", role |-> "", user |-> user, ok |-> opened,
                 disk |-> disk,
                 state |-> IF opened THEN SignerState(files, state_file, user, disk)
                           ELSE ""]
     /\ UNCHANGED <<files, root_history, prev, prev_history, state_file, now>>

\* Signing events on root and targets, opened by either user
NextSigner ==
  \/ \E oc \in OnlineConfigs :
       Len(oc.keys) = 1 /\ InitRepository("@a", InitConfig, InitConfig, oc)
  \/ \E u \in Users, c \in InviteConfigs :
       SetRoleConfig(u, "root", c, KeyFor(u, c.signers))
  \/ Sign("@b", "root")
  \/ \E d \in DiskChoices("targets") :
       d # EmptyDict /\ d[TargetPath("targets")]["sha256"] = "h1"
         /\ UpdateTargets("@a", "targets", d)
  \/ Merge
  \/ \E u \in Users, d \in TargetDisks : OpenRepository(u, d)
SpecSigner == Init /\ [][NextSigner]_vars

\* C30: the state of an opened repository is UNINITIALIZED without root.json;
\* else INVITED when the user is invited to a role; else TARGETS_CHANGED when
\* a target file differs from the targets metadata; else SIGNATURE_NEEDED
\* when a changed role lists a key of the user that has no verifying
\* signature in the role file; else NO_ACTION. Opening writes nothing: the
\* state is a function of the disk at the time of the open.
C30_SignerStatePrecedence ==
  (last.op = "open" /\ last.ok)
    => LET u == last.user
           invited == \E r \in Roles : u \in InvitedSignersForRole(state_file, r)
           targets_changed ==
             \E r \in OfflineRoles \ {"root"} :
               /\ r = "targets" \/ (files["targets"] # NoFile
                                     /\ HasDelegatedRole(files["targets"].signed, r))
               /\ (IF files[r] = NoFile THEN EmptyDict ELSE files[r].signed.targets)
                    # last.disk[r]
           signature_needed ==
             \E r \in Roles :
               /\ files[r] # NoFile
               /\ files[r] # prev[r]
               /\ \E k \in DOMAIN KeysOf(SignerOpen(files, DelegatorOf(r)).signed) :
                    /\ k \in Range(GetDelegatedRole(SignerOpen(files, DelegatorOf(r)).signed, r).keyids)
                    /\ KeysOf(SignerOpen(files, DelegatorOf(r)).signed)[k].owner = u
                    /\ ~SignedBy(files, r, u)
       IN last.state =
            IF files["root"] = NoFile THEN "UNINITIALIZED"
            ELSE IF invited THEN "INVITED"
            ELSE IF targets_changed THEN "TARGETS_CHANGED"
            ELSE IF signature_needed THEN "SIGNATURE_NEEDED"
            ELSE "NO_ACTION"
\* @b holds a root key, is invited to nothing, the target files match the
\* metadata, and the changed root is not signed by @b
C30_Witness ==
  /\ last.op = "open"
  /\ last.ok
  /\ last.user = "@b"
  /\ last.state = "SIGNATURE_NEEDED"
  /\ KeysOwnedBy(files, "root", "@b") # {}
  /\ ~SignedBy(files, "root", "@b")

\* ---- update_targets over every role ---------------------------------------------
\* the body of the edit_targets scope as it would be if REMOVED paths were kept
ApplyTargetStatesKeepsRemoved(signed, role, disk, states) ==
  LET changed == {x.path : x \in {y \in states : y.role = role /\ y.state # "REMOVED"}}
  IN [abort |-> FALSE,
      signed |-> [signed EXCEPT !.targets =
                    [p \in DOMAIN signed.targets \cup changed |->
                       IF p \in changed THEN disk[role][p] ELSE signed.targets[p]]]]
\* the body of the edit_targets scope as it would be if it gave the edited
\* role an empty delegations block
ApplyTargetStatesDelegates(signed, role, disk, states) ==
  [abort |-> FALSE,
   signed |-> [signed EXCEPT !.targets = disk[role],
                             !.delegations = [signed.delegations EXCEPT !.present = TRUE]]]
\* update_targets: the body of the edit_targets scope of one role; a REMOVED
\* path is deleted, an ADDED or MODIFIED path gets the target file on disk
ApplyTargetStates(signed, role, disk, states) ==
  LET removed == {x.path : x \in {y \in states : y.role = role /\ y.state = "REMOVED"}}
      changed == {x.path : x \in {y \in states : y.role = role /\ y.state # "REMOVED"}}
  IN [abort |-> FALSE,
      signed |-> [signed EXCEPT !.targets =
                    [p \in (DOMAIN signed.targets \ removed) \cup changed |->
                       IF p \in changed THEN disk[role][p] ELSE signed.targets[p]]]]
\* update_targets: one edit_targets scope for every role of target_changes
UpdateTargetsLoop(st, user, disk, states) ==
  LET edit(s, r) ==
        IF \E x \in states : x.role = r
        THEN Edit(s, r, ApplyTargetStates(SignerOpen(s.files, r).signed, r, disk, states), user)
        ELSE s
  IN edit(edit(st, "targets"), "d1")
\* SignerRepository(...).update_targets() by user, the repository having been
\* opened with the given target files on disk
UpdateTargetsCmd(user, disk) ==
  LET states == GetTargetStates(files, disk)
      st1 == UpdateTargetsLoop(Store, user, disk, states)
  IN /\ files["root"] # NoFile
     /\ UnknownRolenames(files, disk) = {}
     /\ \A r \in FindChangedRoles(files) : UserSignatureNeededOk(files, r)
     /\ \A x \in states : SignerGetKeysOk(files, x.role)
     /\ VersionsBounded(st1.files)
     /\ files' = st1.files
     /\ root_history' = st1.hist
     /\ last' = [op |-> "update_targets", role |-> "", user |-> user, ok |-> TRUE,
                 disk |-> disk, states |-> states]
     /\ UNCHANGED <<prev, prev_history, state_file, now>>

\* Target files of targets and of the delegated role change over signing events
NextTargets ==
  \/ \E oc \in OnlineConfigs :
       Len(oc.keys) = 1 /\ InitRepository("@a", InitConfig, InitConfig, oc)
  \/ \E c \in DelegConfigs :
       /\ c.expiry_period = 2
       /\ SetRoleConfig("@a", "d1", c, KeyFor("@a", c.signers))
  \/ \E d \in TargetDisks : UpdateTargetsCmd("@a", d)
  \/ Merge
  \/ \E d \in TargetDisks : OpenRepository("@a", d)
SpecTargets == Init /\ [][NextTargets]_vars

\* C31: after update_targets the targets metadata of targets and of every
\* delegated role lists exactly the target files on disk with their hashes,
\* the change set recomputed from the new metadata is empty, and a role
\* without changes keeps its file, version included.
C31_UpdateTargetsReconciles ==
  [][\A d \in TargetDisks :
       UpdateTargetsCmd("@a", d)
         => /\ GetTargetStates(files', d) = {}
            /\ \A r \in {"targets"} \cup GetDelegatedRolenames(files'["targets"].signed) :
                 /\ SignerOpen(files', r).signed.targets = d[r]
                 /\ (SignerOpen(files, r).signed.targets = d[r]) => files'[r] = files[r]
            /\ files'["root"] = files["root"]]_vars
\* the target file of targets was modified and that of the delegated role
\* removed; both roles were edited
C31_Witness ==
  /\ last.op = "update_targets"
  /\ \E x \in last.states : x.role = "targets" /\ x.state = "MODIFIED"
  /\ \E x \in last.states : x.role = "d1" /\ x.state = "REMOVED"
  /\ GetTargetStates(files, last.disk) = {}
  /\ files["d1"].signed.targets = EmptyDict


\* C32: every target path in the metadata of a role delegated by targets
\* matches a path pattern of the role's delegation, the paths of top-level
\* targets have no directory, and opening the repository raises when target
\* files exist for a directory that targets does not delegate.
C32_TargetPathsMatchDelegation ==
  /\ files["targets"] # NoFile
       => /\ \A p \in DOMAIN files["targets"].signed.targets : p.parent = ""
          /\ \A r \in GetDelegatedRolenames(files["targets"].signed) :
               files[r] # NoFile
                 => \A p \in DOMAIN files[r].signed.targets :
                      /\ p.parent = r
                      /\ \E i \in DOMAIN GetDelegatedRole(files["targets"].signed, r).paths :
                           PathMatches(p, GetDelegatedRole(files["targets"].signed, r).paths[i])
  /\ (last.op = "open"
      /\ \E r \in DOMAIN last.disk :
           /\ last.disk[r] # EmptyDict
           /\ r # "targets"
           /\ r \notin GetDelegatedRolenames(SignerOpen(files, "targets").signed))
       => ~last.ok
\* update_targets has recorded the file of the delegated role's directory
C32_Witness ==
  /\ last.op = "update_targets"
  /\ \E x \in last.states : x.role = "d1" /\ x.state = "ADDED"
  /\ TargetPath("d1") \in DOMAIN files["d1"].signed.targets
  /\ GetDelegatedRole(files["targets"].signed, "d1").paths = <<"d1/*">>


\* C33: delegations exist in root and in top-level targets only: the file of
\* a delegated role is a targets payload without a delegations block, the
\* role is delegated by top-level targets, and root delegates the four
\* top-level roles and nothing else.
C33_OneLevelOfDelegation ==
  /\ \A r \in Delegated :
       files[r] # NoFile
         => /\ files[r].signed.type = "targets"
            /\ ~files[r].signed.delegations.present
            /\ DOMAIN files[r].signed.delegations.roles = {}
            /\ DOMAIN files[r].signed.delegations.keys = {}
            /\ files["targets"] # NoFile
            /\ HasDelegatedRole(files["targets"].signed, r)
  /\ files["root"] # NoFile => DOMAIN files["root"].signed.roles = TopLevel
  /\ files["targets"] # NoFile
       => DOMAIN files["targets"].signed.delegations.roles \subseteq Delegated
\* the delegated role has a signer, a recorded target file and a second
\* version, and top-level targets holds its delegation and its key
C33_Witness ==
  /\ files["d1"] # NoFile
  /\ files["d1"].signed.version = 2
  /\ files["d1"].signed.targets # EmptyDict
  /\ ~files["d1"].signed.delegations.present
  /\ files["targets"].signed.delegations.present
  /\ GetDelegatedRole(files["targets"].signed, "d1").keyids # <<>>


\* C34: set_role_config for a role that top-level targets does not delegate
\* yet returns with the delegation created on targets: paths ["<role>/*"],
\* no keys, the threshold of the config, and targets written.
C34_CreatesMissingDelegation ==
  \A c \in OfflineConfigs :
    (files["targets"] # NoFile /\ ~HasDelegatedRole(files["targets"].signed, "d1"))
      => /\ ~SetRoleConfigRaises(files, "d1", c)
         /\ LET st2 == SetRoleConfigOp(Store, "d1", c, KeyFor("@a", c.signers), "@a")
                role == GetDelegatedRole(st2.files["targets"].signed, "d1")
            IN /\ role.paths = <<"d1/*">>
               /\ role.keyids = <<>>
               /\ role.threshold = c.threshold
               /\ st2.files["targets"] # files["targets"]


\* ---- Signing periods ----------------------------------------------------------
\* root and targets configured with a signing period of 0 days, or of the
\* whole expiry period
PeriodConfigs == {[InitConfig EXCEPT !.signing_period = s] : s \in {0, 2}}
NextPeriods ==
  \/ \E rc \in PeriodConfigs, tc \in PeriodConfigs, oc \in OnlineConfigs :
       Len(oc.keys) = 1 /\ InitRepository("@a", rc, tc, oc)
  \/ Merge
  \/ \E e \in SignerEnvs : e.good = {"ko1"} /\ SnapshotCmd(e)
  \/ \E e \in SignerEnvs : e.good = {"ko1"} /\ BumpOnline(e)
  \/ \E r \in TopLevel \ OnlineRoles : BumpOffline(r)
  \/ Tick
SpecPeriods == Init /\ [][NextPeriods]_vars

C36_ZeroSigningPeriodIsDefault ==
  \A r \in TopLevel \ OnlineRoles :
    (files[r] # NoFile /\ files[r].signed.signing_period = 0)
      => (BumpNeeded(files, r)
            <=> now + (ExpiryPeriod(files, r) \div 2) >= files[r].signed.expires)


\* C37 as stated: open(role) of an absent file gives a skeleton of version 0
\* for snapshot and timestamp and fails for every other role, in the
\* repository of the automation and in the repository of the signer.
C37_OpenAbsentRole ==
  \A r \in Roles :
    files[r] = NoFile
      => IF r \in OnlineRoles
         THEN /\ RepoCanOpen(files, r) /\ RepoOpen(files, r).signed.version = 0
              /\ SignerCanOpen(files, r) /\ SignerOpen(files, r).signed.version = 0
         ELSE ~RepoCanOpen(files, r) /\ ~SignerCanOpen(files, r)
\* C37 as the code has it: PlaygroundRepository.open of an absent file gives
\* a snapshot or timestamp skeleton of version 0, which the first close
\* writes as version 1, and raises for every other role;
\* SignerRepository.open raises for snapshot and timestamp and gives a new
\* root or targets payload (version 1, periods 0) for every other role.
C37_OpenAbsentPerRepository ==
  \A r \in Roles :
    files[r] = NoFile
      => IF r \in OnlineRoles
         THEN /\ RepoCanOpen(files, r)
              /\ RepoOpen(files, r).signed.version = 0
              /\ RepoOpen(files, r).signed.type = r
              /\ RepoOpen(files, r).signatures = EmptyDict
              /\ \A e \in SignerEnvs :
                   RepoClose(files, r, RepoOpen(files, r).signed, e).ok
                     => RepoClose(files, r, RepoOpen(files, r).signed, e)
                          .files[r].signed.version = 1
              /\ ~SignerCanOpen(files, r)
         ELSE /\ ~RepoCanOpen(files, r)
              /\ SignerCanOpen(files, r)
              /\ SignerOpen(files, r).signed.version = 1
              /\ SignerOpen(files, r).signed.type = (IF r = "root" THEN "root" ELSE "targets")
              /\ SignerOpen(files, r).signed.expiry_period = 0
              /\ SignerOpen(files, r).signed.signing_period = 0
\* snapshot.json and timestamp.json were absent and the snapshot command has
\* written both as version 1; the delegated role has no file
C37_Witness ==
  /\ last.op = "snapshot"
  /\ last.ok
  /\ prev["snapshot"] # NoFile
  /\ files["snapshot"].signed.version = 1
  /\ files["timestamp"].signed.version = 1
  /\ files["d1"] = NoFile
  /\ ~RepoCanOpen(files, "d1")
  /\ SignerCanOpen(files, "d1")


\* C38: when set_role_config by user U has written root, the file holds no
\* verifying signature of an identity other than U: the entry of every key
\* of another owner is an empty placeholder, whatever was signed before.
C38_CloseDiscardsSignatures ==
  (/\ last.op = "set_role_config"
   /\ last.role = "root"
   /\ ~(last.d_abort /\ last.r_abort))
    => /\ \A v \in Users \ {last.user} : ~SignedBy(files, "root", v)
       /\ \A k \in DOMAIN files["root"].signatures :
            (k \in DOMAIN KeysOf(files["root"].signed)
             /\ KeysOf(files["root"].signed)[k].owner # last.user)
              => files["root"].signatures[k].sig = NoSig
\* @a has edited a root that lists keys of @a and @b: the new root carries
\* the signature of @a and a placeholder for the key of @b
C38_Witness ==
  /\ last.op = "set_role_config"
  /\ last.role = "root"
  /\ last.user = "@a"
  /\ ~last.invited
  /\ ~(last.d_abort /\ last.r_abort)
  /\ KeysOwnedBy(files, "root", "@b") # {}
  /\ SignedBy(files, "root", "@a")
  /\ \E k \in KeysOwnedBy(files, "root", "@b") :
       files["root"].signatures[k] = EmptySignature(k)


\* C39: sign(root) by a user leaves the payload of root, the signature
\* entries of keys of other owners, every other role file and the event
\* state as they were; the only entries it adds or replaces are those of
\* the user's own keys, and root_history/<version>.root.json is written
\* with the content of root.json.
C39_SignChangesOwnSignatureOnly ==
  [][\A u \in Users :
       Sign(u, "root")
         => /\ files["root"] # NoFile
                 => /\ files'["root"].signed = files["root"].signed
                    /\ \A k \in DOMAIN files["root"].signatures :
                         /\ k \in DOMAIN files'["root"].signatures
                         /\ (k \notin KeysOwnedBy(files, "root", u))
                              => files'["root"].signatures[k] = files["root"].signatures[k]
                    /\ DOMAIN files'["root"].signatures
                         \subseteq DOMAIN files["root"].signatures
                                     \cup KeysOwnedBy(files, "root", u)
                    /\ files'["root"] # files["root"]
                         => root_history'[files'["root"].signed.version] = files'["root"]
                    /\ \A v \in DOMAIN root_history :
                         v # files["root"].signed.version
                           => (v \in DOMAIN root_history' /\ root_history'[v] = root_history[v])
            /\ \A r \in Roles \ {"root"} : files'[r] = files[r]
            /\ state_file' = state_file]_vars
\* @b has signed the root that @a had signed: both signatures verify and
\* the root history holds the signed root
C39_Witness ==
  /\ last.op = "sign"
  /\ last.user = "@b"
  /\ last.role = "root"
  /\ SignedBy(files, "root", "@a")
  /\ SignedBy(files, "root", "@b")
  /\ GetDelegatedRole(files["root"].signed, "root").threshold = 2
  /\ root_history[files["root"].signed.version] = files["root"]


\* ---- A signing event runs to its end ------------------------------------------
\* root has been edited in the signing event (version: known good + 1), no
\* invitation is open, and the threshold does not exceed the number of
\* owners of root keys
EventReady ==
  /\ files["root"] # NoFile
  /\ files["root"].signed.version = PrevVersionPlusOne("root")
  /\ DOMAIN LoadInvites(state_file) = {}
  /\ GetDelegatedRole(files["root"].signed, "root").threshold
       <= Cardinality(KeyOwners(files, "root"))
\* Root is edited until the signing event is ready; from then on the key
\* owners sign, and an accepted event is merged
NextSigning ==
  \/ \E u \in Users, c \in RootConfigs :
       ~EventReady /\ SetRoleConfig(u, "root", c, KeyFor(u, c.signers))
  \/ \E u \in Users : Sign(u, "root")
  \/ Merge
\* every user runs sign(root) again and again
SpecSigning ==
  /\ Init
  /\ [][NextSigning]_vars
  /\ \A u \in Users : WF_vars(Sign(u, "root"))

\* C40: once root is edited with the version after the known-good one, no
\* invitation open and a threshold that its key owners can meet, and no
\* further edit is made, the signatures of the key owners make status(root)
\* valid, and it stays valid while the event stays as it is.
C40_SigningEventCompletes ==
  /\ EventReady ~> (StatusOk(files, "root") /\ Status(files, state_file, "root").valid)
  /\ [][(/\ EventReady
         /\ StatusOk(files, "root")
         /\ Status(files, state_file, "root").valid
         /\ EventReady')
          => Status(files', state_file', "root").valid]_vars
\* both owners of root keys have signed a root with threshold 2, and its
\* status is valid
C40_Witness ==
  /\ EventReady
  /\ last.op = "sign"
  /\ GetDelegatedRole(files["root"].signed, "root").threshold = 2
  /\ KeyOwners(files, "root") = {"@a", "@b"}
  /\ Status(files, state_file, "root").valid

====
